---- MODULE Spec2Model ----
(***************************************************************************)
(* Model of the MCP agent's capability discovery and operation dispatch:   *)
(*   agent/mcp_agent.py            MCPAgent (called "legacy" below)         *)
(*   agent/refactored_agent.py     MCPAgent (called "refactored" below)     *)
(*   agent/capabilities/discovery.py  CapabilityDiscovery                   *)
(*   agent/parsers/yaml_parser.py  YAMLParser, ContextValidator             *)
(*                                                                         *)
(* Python strings are sequences of symbols: the symbols "/", "{", "}" and  *)
(* "_" are single characters, every other symbol is an indivisible word.   *)
(* Python dicts are functions whose DOMAIN is the set of keys present;     *)
(* a dict whose insertion order matters (kwargs, the paths of a schema     *)
(* document) is a sequence of <<key, value>> pairs with distinct keys.     *)
(***************************************************************************)
EXTENDS Integers, Sequences, FiniteSets, TLC

VARIABLES
    backend,      \* what the schema endpoint answers right now
    context_file, \* the static context file both agents were constructed on
    refresher,    \* where a refresh_capabilities call running in another thread stands
    legacy,       \* attributes of the agent/mcp_agent.py MCPAgent instance
    refactored,   \* attributes of the agent/refactored_agent.py MCPAgent instance
    discovery,    \* attributes of its CapabilityDiscovery instance
    fetches,      \* number of schema fetches CapabilityDiscovery has issued
    call,         \* the last call made on either agent and its arguments
    sent,         \* the dispatch requests that call issued, in order
    reply,        \* what the transport answered to the last of them
    result,       \* how that call ended: a returned value or a raised error
    database,     \* the SQLite file of the backend: herd rows and AUTOINCREMENT counter
    now,          \* the wall clock, in seconds
    _agent_instance, \* the module global of app/api/v1/endpoints/agent.py
    resolving,    \* where each request resolving the get_agent dependency stands
    agents,       \* the MCPAgent instances get_agent has constructed, in order
    server        \* attributes of the BovisyncMCPServer or DairyFarmMCPServer instance

vars == <<backend, context_file, refresher, legacy, refactored, discovery, fetches, call, sent, reply, result,
          database, now, _agent_instance, resolving, agents, server>>

\* the state of the agents, and the state of the backend and the servers
agent_vars == <<backend, context_file, refresher, legacy, refactored, discovery, fetches>>
dep_vars == <<_agent_instance, resolving, agents>>
app_vars == <<database, now, dep_vars, server>>

(***************************************************************************)
(* Bounds of the model.                                                    *)
(***************************************************************************)
MaxArgs == 2        \* keyword arguments per call
MaxFetches == 3     \* schema fetches CapabilityDiscovery may issue in a run
MaxTicks == 7       \* steps of five minutes the clock advances
MaxHerdId == 4      \* largest herd id the database hands out
MaxResolvers == 2   \* requests resolving the get_agent dependency at the same time

(***************************************************************************)
(* Strings.                                                                *)
(***************************************************************************)
\* s.startswith(prefix)
StartsWith(s, prefix) ==
    /\ Len(prefix) <= Len(s)
    /\ SubSeq(s, 1, Len(prefix)) = prefix

\* sub in s
RECURSIVE Contains(_, _)
Contains(s, sub) ==
    IF Len(s) < Len(sub) THEN FALSE
    ELSE StartsWith(s, sub) \/ Contains(Tail(s), sub)

\* s.replace(old, new): every non-overlapping occurrence, left to right
RECURSIVE Replace(_, _, _)
Replace(s, old, new) ==
    IF Len(s) < Len(old) \/ Len(old) = 0 THEN s
    ELSE IF StartsWith(s, old)
         THEN new \o Replace(SubSeq(s, Len(old) + 1, Len(s)), old, new)
         ELSE <<Head(s)>> \o Replace(Tail(s), old, new)

\* s.split("/")
RECURSIVE SplitSlash(_, _)
SplitSlash(s, cur) ==
    IF s = <<>> THEN <<cur>>
    ELSE IF Head(s) = "/" THEN <<cur>> \o SplitSlash(Tail(s), <<>>)
         ELSE SplitSlash(Tail(s), Append(cur, Head(s)))

\* "_".join(parts)
RECURSIVE JoinUnderscore(_)
JoinUnderscore(parts) ==
    IF parts = <<>> THEN <<>>
    ELSE IF Len(parts) = 1 THEN parts[1]
         ELSE parts[1] \o <<"_">> \o JoinUnderscore(Tail(parts))

\* str.upper() and str.lower() on the method words that occur
Upper(m) ==
    CASE m \in {"get", "GET"} -> "GET"
      [] m \in {"post", "POST"} -> "POST"
      [] m \in {"put", "PUT"} -> "PUT"
      [] m \in {"delete", "DELETE"} -> "DELETE"
      [] m \in {"patch", "PATCH"} -> "PATCH"
      [] m \in {"head", "HEAD"} -> "HEAD"
      [] OTHER -> m

Lower(m) ==
    CASE m \in {"get", "GET"} -> "get"
      [] m \in {"post", "POST"} -> "post"
      [] m \in {"put", "PUT"} -> "put"
      [] m \in {"delete", "DELETE"} -> "delete"
      [] m \in {"patch", "PATCH"} -> "patch"
      [] m \in {"head", "HEAD"} -> "head"
      [] OTHER -> m

\* str(value): an int prints as its decimal word, a str is itself
Str(value) ==
    IF value.t = "int" THEN <<ToString(value.v)>> ELSE value.v

(***************************************************************************)
(* Dicts.                                                                  *)
(***************************************************************************)
EmptyDict == [k \in {} |-> 0]
None == [isNone |-> TRUE]

\* bool(x) of None or of a dict
Truthy(x) == x # None /\ DOMAIN x # {}

\* d.get(key, default)
Get(d, key, default) == IF key \in DOMAIN d THEN d[key] ELSE default

\* keys of an ordered dict, in order
Keys(pairs) == [i \in 1..Len(pairs) |-> pairs[i][1]]
KeySet(pairs) == {pairs[i][1] : i \in 1..Len(pairs)}

\* concatenation of a sequence of sequences
RECURSIVE Flatten(_)
Flatten(seqs) ==
    IF seqs = <<>> THEN <<>> ELSE Head(seqs) \o Flatten(Tail(seqs))

(***************************************************************************)
(* The environment: schema documents the backend may serve, static context *)
(* files, and what a transport round trip may come back with.              *)
(***************************************************************************)
P_herd == <<"/", "herd">>
P_herd_id == <<"/", "herd", "/", "{", "herd_id", "}">>
P_api_herd == <<"/", "api", "/", "v1", "/", "herd">>
P_farm_herd == <<"/", "farm", "/", "{", "farm_id", "}", "/", "herd", "/", "{", "herd_id", "}">>

\* An OpenAPI document: paths -> method -> operation object
DocHerd ==
    [paths |-> <<
        <<P_herd, <<
            <<"get", [summary |-> <<"List herds">>]>>,
            <<"post", [description |-> <<"Create a herd">>]>> >> >>,
        <<P_herd_id, <<
            <<"get", [summary |-> <<"Get herd">>, description |-> <<"Get one herd">>]>>,
            <<"put", EmptyDict>>,
            <<"delete", EmptyDict>>,
            <<"patch", EmptyDict>> >> >> >>]

DocFarm ==
    [paths |-> <<
        <<P_api_herd, <<
            <<"GET", [operationId |-> <<"listHerd">>]>>,
            <<"head", EmptyDict>> >> >>,
        <<P_farm_herd, <<
            <<"get", EmptyDict>>,
            <<"post", EmptyDict>> >> >> >>]

DocNoPaths == [info |-> [title |-> <<"MCP">>]]

\* two paths whose GET operations have the same last segment
DocClash ==
    [paths |-> <<
        <<P_farm_herd, << <<"get", EmptyDict>>, <<"parameters", EmptyDict>> >> >>,
        <<P_herd_id, << <<"options", EmptyDict>>, <<"get", EmptyDict>> >> >> >>]

Docs == {DocHerd, DocFarm, DocNoPaths, DocClash}

\* What GET <base_url><api_prefix>/openapi.json may come back with
SchemaAnswers ==
    [kind : {"response"}, status : {200}, doc : Docs]
    \cup {[kind |-> "response", status |-> 503, doc |-> DocNoPaths],
          [kind |-> "badjson", status |-> 200],
          [kind |-> "exc", exc |-> "ConnectionError"],
          [kind |-> "exc", exc |-> "Timeout"]}

\* Static context files, as yaml.safe_load returns them; "missing" is no file
CtxListHerd ==
    [schema_version |-> 1,
     api |-> [version |-> <<"v1">>,
              tools |-> << [name |-> <<"listHerd">>, method |-> "GET", path |-> P_api_herd] >>]]

CtxCrud ==
    [api |-> [version |-> <<"v1">>,
              tools |-> <<
                [name |-> <<"listHerd">>, method |-> "GET", path |-> P_herd],
                [name |-> <<"createHerd">>, method |-> "POST", path |-> P_herd],
                [name |-> <<"getHerd">>, method |-> "GET", path |-> P_herd_id],
                [name |-> <<"updateHerd">>, method |-> "PUT", path |-> P_herd_id],
                [name |-> <<"patchHerd">>, method |-> "PATCH", path |-> P_farm_herd],
                [name |-> <<"deleteHerd">>, method |-> "DELETE", path |-> P_herd_id],
                [name |-> <<"bare">>] >>]]

\* yaml.safe_load of a document whose top level is a non-empty sequence
YamlList == [isList |-> TRUE]

\* The lines of the files, as line.strip() leaves them: the first symbol is
\* the field marker (or any other first word), the rest is the text after it
LinesListHerd ==
    << <<"schema_version:", "1">>,
       <<"api:">>,
       <<"version:", "v1">>,
       <<"tools:">>,
       <<"- name:", "listHerd">>,
       <<"method:", "GET">>,
       <<"path:">> \o P_api_herd >>

LinesCrud ==
    << <<"api:">>,
       <<"version:", "v1">>,
       <<"tools:">>,
       <<"- name:", "listHerd">>, <<"method:", "GET">>, <<"path:">> \o P_herd,
       <<"- name:", "createHerd">>, <<"method:", "POST">>, <<"path:">> \o P_herd,
       <<"- name:", "getHerd">>, <<"method:", "GET">>, <<"path:">> \o P_herd_id,
       <<"- name:", "updateHerd">>, <<"method:", "PUT">>, <<"path:">> \o P_herd_id,
       <<"- name:", "patchHerd">>, <<"method:", "PATCH">>, <<"path:">> \o P_farm_herd,
       <<"- name:", "deleteHerd">>, <<"method:", "DELETE">>, <<"path:">> \o P_herd_id,
       <<"- name:", "bare">> >>

\* A context file on disk: its lines and what yaml.safe_load makes of it
\* (data); "missing" is no file, "invalid" a file yaml.safe_load rejects
\* with YAMLError
ContextFiles ==
    {[kind |-> "file", lines |-> LinesListHerd, data |-> CtxListHerd],
     [kind |-> "file", lines |-> LinesCrud, data |-> CtxCrud],
     [kind |-> "file", lines |-> <<>>, data |-> None],
     [kind |-> "file", lines |-> << <<"-", "listHerd">>, <<"-", "getHerd">> >>, data |-> YamlList],
     [kind |-> "invalid", lines |-> << <<"api:", "[">>, <<"- name:", "listHerd">> >>],
     [kind |-> "missing"]}

BaseUrls == {<<"http://fakeapi.com", "/">>}
DefaultTimeout == 30


\* Keyword arguments of a dispatch call: ordered, distinct keys
ArgKeys == {<<"herd_id">>, <<"farm_id">>, <<"name">>}
ArgValues ==
    {[t |-> "int", v |-> 42], [t |-> "str", v |-> <<"X">>],
     [t |-> "str", v |-> <<"{", "farm_id", "}">>]}

DistinctKeys(kw) == \A i, j \in 1..Len(kw) : i # j => kw[i][1] # kw[j][1]

KwargsOfLen(n) == {kw \in [1..n -> ArgKeys \X ArgValues] : DistinctKeys(kw)}
AllKwargs == UNION {KwargsOfLen(n) : n \in 0..MaxArgs}

Tokens == {<<"tok123">>}

ToolNames ==
    {<<"listHerd">>, <<"createHerd">>, <<"getHerd">>, <<"updateHerd">>,
     <<"patchHerd">>, <<"deleteHerd">>, <<"bare">>,
     <<"list", "_", "herd">>, <<"create", "_", "herd">>, <<"get", "_", "herd">>,
     <<"update", "_", "herd">>, <<"delete", "_", "herd">>, <<"patch", "_", "herd">>,
     <<"nosuch">>}

\* What one transport round trip of a dispatch may come back with
Reason(status) ==
    CASE status = 200 -> <<"OK">>
      [] status = 404 -> <<"Not Found">>
      [] status = 503 -> <<"Service Unavailable">>
      [] OTHER -> <<"">>

JsonBodies == { <<[id |-> 1, name |-> <<"Sheepie">>]>>, <<>> }

TransportAnswers ==
    [kind : {"response"}, status : {200}, json : JsonBodies]
    \cup [kind : {"response"}, status : {404, 503}, json : {<<>>}]
    \cup [kind : {"exc"}, exc : {"Timeout", "ConnectTimeout", "ConnectionError"}]

(***************************************************************************)
(* requests: raise_for_status and the exception classes.                   *)
(***************************************************************************)
\* Response.raise_for_status(): the status codes that raise HTTPError
RaisesForStatus(status) == status >= 400

\* the classes an exception is an instance of
Bases(exc) ==
    CASE exc = "HTTPError" -> {"HTTPError", "RequestException", "Exception"}
      [] exc = "Timeout" -> {"Timeout", "RequestException", "Exception"}
      [] exc = "ConnectionError" -> {"ConnectionError", "RequestException", "Exception"}
      [] exc = "ConnectTimeout" ->
            {"ConnectTimeout", "ConnectionError", "Timeout", "RequestException", "Exception"}
      [] OTHER -> {exc, "Exception"}

\* the first except clause of `clauses` that catches exc, or "" if none does
RECURSIVE CaughtBy(_, _)
CaughtBy(clauses, exc) ==
    IF clauses = <<>> THEN ""
    ELSE IF Head(clauses) \in Bases(exc) THEN Head(clauses)
         ELSE CaughtBy(Tail(clauses), exc)

\* what the try body of a round trip ends with: the parsed body, or the
\* exception raised by the transport or by raise_for_status
RoundTrip(answer) ==
    IF answer.kind = "exc" THEN [raised |-> TRUE, exc |-> answer.exc]
    ELSE IF RaisesForStatus(answer.status)
         THEN [raised |-> TRUE, exc |-> "HTTPError",
               status_code |-> answer.status, reason |-> Reason(answer.status)]
         ELSE [raised |-> FALSE, json |-> answer.json]

Returned(value) == [kind |-> "return", value |-> value]
Raised(type, msg) == [kind |-> "raise", type |-> type, msg |-> msg]


(***************************************************************************)
(* agent/mcp_agent.py: MCPAgent.                                           *)
(***************************************************************************)
SupportedMethods == {"GET", "POST", "PUT", "DELETE", "PATCH"}

\* the path segments that are non-empty and do not start with "{"
ResourceParts(path) ==
    SelectSeq(SplitSlash(path, <<>>), LAMBDA part : part # <<>> /\ Head(part) # "{")

\* MCPAgent._generate_tool_name
MCPAgent_generate_tool_name(method, path, details) ==
    IF "operationId" \in DOMAIN details THEN details["operationId"]
    ELSE LET path_parts == ResourceParts(path)
             resource == IF path_parts # <<>> THEN path_parts[Len(path_parts)]
                         ELSE <<"unknown">>
             action == CASE Upper(method) = "GET" ->
                                IF ~Contains(path, <<"{">>) THEN "list" ELSE "get"
                         [] Upper(method) = "POST" -> "create"
                         [] Upper(method) = "PUT" -> "update"
                         [] Upper(method) = "DELETE" -> "delete"
                         [] Upper(method) = "PATCH" -> "patch"
                         [] OTHER -> Lower(method)
         IN  <<action>> \o <<"_">> \o resource

\* the tool built for one (path, method) pair of the document
MCPAgent_tool(path, method, details) ==
    [name |-> MCPAgent_generate_tool_name(method, path, details),
     method |-> Upper(method),
     path |-> path,
     description |-> Get(details, "summary", Get(details, "description", <<>>))]

\* mutant: every key under a path becomes a tool
MCPAgent_parse_spec_every_key(openapi_spec) ==
    LET paths == Get(openapi_spec, "paths", <<>>)
        ToolsOf(entry) ==
            [i \in 1..Len(entry[2]) |-> MCPAgent_tool(entry[1], entry[2][i][1], entry[2][i][2])]
    IN  [info |-> Get(openapi_spec, "info", EmptyDict),
         paths |-> paths,
         tools |-> Flatten([i \in 1..Len(paths) |-> ToolsOf(paths[i])])]

\* MCPAgent._discover_capabilities, after the document was fetched
MCPAgent_parse_spec(openapi_spec) ==
    LET paths == Get(openapi_spec, "paths", <<>>)
        ToolsOf(entry) ==
            LET kept == SelectSeq(entry[2], LAMBDA m : Upper(m[1]) \in SupportedMethods)
            IN  [i \in 1..Len(kept) |-> MCPAgent_tool(entry[1], kept[i][1], kept[i][2])]
    IN  [info |-> Get(openapi_spec, "info", EmptyDict),
         paths |-> paths,
         tools |-> Flatten([i \in 1..Len(paths) |-> ToolsOf(paths[i])])]

\* MCPAgent._discover_capabilities: the capabilities, or RuntimeError
MCPAgent_discover_capabilities(answer) ==
    IF answer.kind = "exc"
    THEN Raised("RuntimeError", [text |-> "Failed to fetch OpenAPI spec"])
    ELSE IF RaisesForStatus(answer.status)
    THEN Raised("RuntimeError", [text |-> "Failed to fetch OpenAPI spec"])
    ELSE IF answer.kind = "badjson"
    THEN Raised("RuntimeError", [text |-> "Invalid OpenAPI specification"])
    ELSE Returned(MCPAgent_parse_spec(answer.doc))

\* the yaml import at module load succeeded
YAML_AVAILABLE == TRUE

\* isinstance(data, dict)
IsDict(data) == data # None /\ data # YamlList

\* d[key] = value on a dict whose order does not matter
SetItem(d, key, value) ==
    [k \in DOMAIN d \cup {key} |-> IF k = key THEN value ELSE d[k]]

\* line.startswith(marker) and line.split(":", 1)[1].strip()
LineStartsWith(line, marker) == line # <<>> /\ Head(line) = marker
LineValue(line) == Tail(line)

\* the word a one-word value consists of
Word(value) == IF value = <<>> THEN "" ELSE Head(value)

\* int(value) if value is a decimal numeral, else value itself
IntOrStr(value) ==
    CASE value = <<"1">> -> 1
      [] value = <<"2">> -> 2
      [] OTHER -> value

\* the items of an inline list "[a, b]": the words between brackets and commas
ScopeItems(value) ==
    LET words == SelectSeq(value, LAMBDA w : w \notin {"[", "]", ","})
    IN  [i \in 1..Len(words) |-> <<words[i]>>]

\* mutant: the field is set on the first declared tool
SetOnFirstTool(context, key, value) ==
    LET tools == context.api.tools
    IN  [context EXCEPT !.api.tools = [tools EXCEPT ![1] = SetItem(tools[1], key, value)]]

\* tool[key] = value on the most recently declared tool
SetOnLastTool(context, key, value) ==
    LET tools == context.api.tools
        n == Len(tools)
    IN  [context EXCEPT !.api.tools = [tools EXCEPT ![n] = SetItem(tools[n], key, value)]]

\* mutant: a line with no recognized marker ends the parse of the tool it is in
MCPAgent_parse_line_strict(context, line) ==
    LET value == LineValue(line)
        tool_set == context.api.tools # <<>>
    IN  CASE LineStartsWith(line, "- name:") ->
                [context EXCEPT !.api.tools = Append(context.api.tools, [name |-> value])]
          [] LineStartsWith(line, "method:") /\ tool_set ->
                SetOnLastTool(context, "method", Word(value))
          [] LineStartsWith(line, "path:") /\ tool_set ->
                SetOnLastTool(context, "path", value)
          [] tool_set -> [context EXCEPT !.api.tools = SubSeq(@, 1, Len(@) - 1)]
          [] OTHER -> context

\* the body of the loop of _parse_context_fallback for one line
MCPAgent_parse_line(context, line) ==
    LET value == LineValue(line)
        tool_set == context.api.tools # <<>>
        versioned == IF LineStartsWith(line, "schema_version:")
                     THEN SetItem(context, "schema_version", IntOrStr(value))
                     ELSE context
    IN  CASE LineStartsWith(line, "version:") ->
                [versioned EXCEPT !.api = SetItem(versioned.api, "version", value)]
          [] LineStartsWith(line, "- name:") ->
                [versioned EXCEPT !.api.tools = Append(versioned.api.tools, [name |-> value])]
          [] LineStartsWith(line, "method:") /\ tool_set ->
                SetOnLastTool(versioned, "method", Word(value))
          [] LineStartsWith(line, "path:") /\ tool_set ->
                SetOnLastTool(versioned, "path", value)
          [] LineStartsWith(line, "description:") /\ tool_set ->
                SetOnLastTool(versioned, "description", value)
          [] LineStartsWith(line, "scopes:") /\ tool_set ->
                SetOnLastTool(versioned, "scopes", ScopeItems(value))
          [] OTHER -> versioned

RECURSIVE MCPAgent_parse_lines(_, _)
MCPAgent_parse_lines(context, lines) ==
    IF lines = <<>> THEN context
    ELSE MCPAgent_parse_lines(MCPAgent_parse_line(context, Head(lines)), Tail(lines))

\* mutant: the default context carries an empty version
MCPAgent_parse_context_fallback_with_version(file) ==
    LET context == [api |-> [tools |-> <<>>, version |-> <<>>]]
    IN  IF file.kind = "missing" THEN context
        ELSE MCPAgent_parse_lines(context, file.lines)

\* MCPAgent._parse_context_fallback
MCPAgent_parse_context_fallback(file) ==
    LET context == [api |-> [tools |-> <<>>]]
    IN  IF file.kind = "missing" THEN context
        ELSE MCPAgent_parse_lines(context, file.lines)

\* MCPAgent._parse_context: the mapping, or the ValueError it raises
MCPAgent_parse_context(file) ==
    IF YAML_AVAILABLE
    THEN IF file.kind = "missing" THEN Returned([api |-> [tools |-> <<>>]])
         ELSE IF file.kind = "invalid"
         THEN Raised("ValueError", [text |-> "Error parsing"])
         ELSE LET data == IF Truthy(file.data) THEN file.data ELSE EmptyDict
              IN  IF ~IsDict(data)
                  THEN Raised("ValueError", [text |-> "Model context must be a mapping"])
                  ELSE Returned(data)
    ELSE Returned(MCPAgent_parse_context_fallback(file))

\* str.rstrip("/")
RECURSIVE RstripSlash(_)
RstripSlash(s) ==
    IF s # <<>> /\ s[Len(s)] = "/" THEN RstripSlash(SubSeq(s, 1, Len(s) - 1)) ELSE s

\* MCPAgent.__init__: the attributes of the constructed instance, or the
\* error the constructor raises
MCPAgent_init(base_url, file, auto_discover, timeout, answer) ==
    LET self == [base_url |-> RstripSlash(base_url), timeout |-> timeout,
                 capabilities |-> EmptyDict]
        found == MCPAgent_discover_capabilities(answer)
        parsed == MCPAgent_parse_context(file)
    IN  IF auto_discover /\ found.kind = "return"
        THEN [self EXCEPT !.capabilities = found.value]
        ELSE IF parsed.kind = "raise" THEN parsed
        ELSE SetItem(self, "context", parsed.value)

\* the constructor returned an instance
IsInstance(agent) == "kind" \notin DOMAIN agent

\* mutant: the static fallback loses its first tool
MCPAgent_get_available_tools_skip_first(self) ==
    IF "capabilities" \in DOMAIN self /\ Truthy(self.capabilities)
    THEN Returned(Get(self.capabilities, "tools", <<>>))
    ELSE IF "context" \in DOMAIN self
         THEN LET api_tools == Get(Get(self.context, "api", EmptyDict), "tools", <<>>)
              IN  Returned(IF api_tools = <<>> THEN <<>> ELSE Tail(api_tools))
         ELSE Raised("AttributeError", [text |-> "context"])

\* MCPAgent.get_available_tools
MCPAgent_get_available_tools(self) ==
    IF "capabilities" \in DOMAIN self /\ Truthy(self.capabilities)
    THEN Returned(Get(self.capabilities, "tools", <<>>))
    ELSE IF "context" \in DOMAIN self
         THEN Returned(Get(Get(self.context, "api", EmptyDict), "tools", <<>>))
         ELSE Raised("AttributeError", [text |-> "context"])

\* the first tool of `tools` named tool_name, or None
FirstNamed(tools, tool_name) ==
    LET hits == SelectSeq(tools, LAMBDA t : "name" \in DOMAIN t /\ t.name = tool_name)
    IN  IF hits = <<>> THEN None ELSE Head(hits)

\* mutant: an unknown name falls back to the first tool of the registry
MCPAgent_find_tool_default_first(self, tool_name) ==
    LET tools == MCPAgent_get_available_tools(self)
    IN  IF tools.kind = "raise" THEN tools
        ELSE IF FirstNamed(tools.value, tool_name) = None /\ tools.value # <<>>
        THEN Returned(Head(tools.value))
        ELSE Returned(FirstNamed(tools.value, tool_name))

\* MCPAgent.find_tool
MCPAgent_find_tool(self, tool_name) ==
    LET tools == MCPAgent_get_available_tools(self)
    IN  IF tools.kind = "raise" THEN tools
        ELSE Returned(FirstNamed(tools.value, tool_name))

\* f"{{{key}}}"
Placeholder(key) == <<"{">> \o key \o <<"}">>

\* mutant: placeholders left without a value lose their braces
RECURSIVE SubstitutePath_strip_unfilled(_, _)
SubstitutePath_strip_unfilled(path, kwargs) ==
    IF kwargs = <<>> THEN SelectSeq(path, LAMBDA c : c \notin {"{", "}"})
    ELSE LET key == Head(kwargs)[1]
             value == Head(kwargs)[2]
         IN  SubstitutePath_strip_unfilled(
                IF Contains(path, Placeholder(key))
                THEN Replace(path, Placeholder(key), Str(value)) ELSE path,
                Tail(kwargs))

\* the loop "for key, value in kwargs.items(): if {key} in path: path = path.replace(...)"
RECURSIVE SubstitutePath(_, _)
SubstitutePath(path, kwargs) ==
    IF kwargs = <<>> THEN path
    ELSE LET key == Head(kwargs)[1]
             value == Head(kwargs)[2]
         IN  SubstitutePath(
                IF Contains(path, Placeholder(key))
                THEN Replace(path, Placeholder(key), Str(value)) ELSE path,
                Tail(kwargs))

\* mutant: the token is sent without the Bearer scheme
AuthHeaders_raw_token(token) == [Authorization |-> token]

\* {"Authorization": f"Bearer {token}"}
AuthHeaders(token) == [Authorization |-> <<"Bearer ">> \o token]

\* {k: v for k, v in kwargs.items() if f"{{{k}}}" not in tool.get("path", "")}
NonPathArgs(tool, kwargs) ==
    SelectSeq(kwargs, LAMBDA kv : ~Contains(Get(tool, "path", <<>>), Placeholder(kv[1])))

\* mutant: the remaining arguments go to the query string whatever the verb
RequestKwargs_query_always(self, tool, method, token, kwargs) ==
    LET base == [headers |-> AuthHeaders(token), timeout |-> self.timeout]
        rest == NonPathArgs(tool, kwargs)
        extra == IF rest # <<>> THEN {"params"} ELSE {}
    IN  [k \in DOMAIN base \cup extra |-> IF k \in extra THEN rest ELSE base[k]]

\* request_kwargs of execute_operation: headers, then json or params, then timeout
RequestKwargs(self, tool, method, token, kwargs) ==
    LET base == [headers |-> AuthHeaders(token),
                 timeout |-> self.timeout]
        rest == NonPathArgs(tool, kwargs)
        extra == IF method \in {"POST", "PUT", "PATCH"} /\ rest # <<>> THEN {"json"}
                 ELSE IF method = "GET" /\ rest # <<>> THEN {"params"}
                 ELSE {}
    IN  [k \in DOMAIN base \cup extra |-> IF k \in extra THEN rest ELSE base[k]]

\* mutant: the generic RequestException clause comes first and catches everything
MCPAgent_handle_generic_first(self, exc) ==
    Raised("RuntimeError", [text |-> "Request error", exc |-> exc.exc])

\* the except clauses of execute_operation and list_herd
MCPAgent_handle(self, exc) ==
    LET clause == CaughtBy(<<"Timeout", "HTTPError", "RequestException">>, exc.exc)
    IN  CASE clause = "Timeout" ->
                Raised("RuntimeError", [text |-> "Request timeout after", timeout |-> self.timeout])
          [] clause = "HTTPError" ->
                Raised("RuntimeError", [text |-> "HTTP error", status_code |-> exc.status_code,
                                        reason |-> exc.reason])
          [] clause = "RequestException" ->
                Raised("RuntimeError", [text |-> "Request error", exc |-> exc.exc])
          [] OTHER -> Raised(exc.exc, [text |-> "uncaught"])

\* mutant: a round trip that raised is tried once more
MCPAgent_dispatch_retry(self, request, answer) ==
    LET trip == RoundTrip(answer)
    IN  [sent |-> IF trip.raised THEN <<request, request>> ELSE <<request>>,
         result |-> IF trip.raised THEN MCPAgent_handle(self, trip)
                    ELSE Returned(trip.json)]

\* one requests.request(method, url, **request_kwargs) call and what the
\* try block around it makes of the answer
MCPAgent_dispatch(self, request, answer) ==
    LET trip == RoundTrip(answer)
    IN  [sent |-> <<request>>,
         result |-> IF trip.raised THEN MCPAgent_handle(self, trip)
                    ELSE Returned(trip.json)]

\* MCPAgent.execute_operation
MCPAgent_execute_operation(self, tool_name, token, kwargs, answer) ==
    LET found == MCPAgent_find_tool(self, tool_name)
    IN  IF found.kind = "raise" THEN [sent |-> <<>>, result |-> found]
        ELSE IF ~Truthy(found.value)
        THEN [sent |-> <<>>,
              result |-> Raised("ValueError", [text |-> "Tool not found in discovered capabilities",
                                               tool_name |-> tool_name])]
        ELSE LET tool == found.value
                 method == Get(tool, "method", "GET")
                 path == SubstitutePath(Get(tool, "path", <<>>), kwargs)
                 url == self.base_url \o path
                 request_kwargs == RequestKwargs(self, tool, method, token, kwargs)
                 request == [k \in {"method", "url"} \cup DOMAIN request_kwargs |->
                               CASE k = "method" -> method
                                 [] k = "url" -> url
                                 [] OTHER -> request_kwargs[k]]
             IN  MCPAgent_dispatch(self, request, answer)

\* MCPAgent.list_herd
MCPAgent_list_herd(self, token, answer) ==
    IF "context" \notin DOMAIN self
    THEN [sent |-> <<>>, result |-> Raised("AttributeError", [text |-> "context"])]
    ELSE LET tool == FirstNamed(Get(Get(self.context, "api", EmptyDict), "tools", <<>>),
                                <<"listHerd">>)
         IN  IF tool = None
             THEN [sent |-> <<>>,
                   result |-> Raised("ValueError", [text |-> "listHerd tool not found in model context"])]
             ELSE IF Get(tool, "path", <<>>) = <<>>
             THEN [sent |-> <<>>,
                   result |-> Raised("ValueError", [text |-> "listHerd tool path not found in model context"])]
             ELSE MCPAgent_dispatch(self,
                    [method |-> "GET", url |-> self.base_url \o tool.path,
                     headers |-> AuthHeaders(token),
                     timeout |-> self.timeout],
                    answer)


(***************************************************************************)
(* agent/capabilities/discovery.py: CapabilityDiscovery.                   *)
(***************************************************************************)
\* the requests import at module load succeeded
REQUESTS_AVAILABLE == TRUE

\* d[key] = value on an ordered dict
DictSet(pairs, key, value) ==
    IF key \in KeySet(pairs)
    THEN [i \in 1..Len(pairs) |-> IF pairs[i][1] = key THEN <<key, value>> ELSE pairs[i]]
    ELSE Append(pairs, <<key, value>>)

\* the inner loop of _parse_openapi_spec over the methods of one path
RECURSIVE CD_parse_methods(_, _)
CD_parse_methods(path_spec, parsed) ==
    IF path_spec = <<>> THEN parsed
    ELSE LET method == Head(path_spec)[1]
             method_spec == Head(path_spec)[2]
         IN  CD_parse_methods(Tail(path_spec),
                IF Upper(method) \in SupportedMethods
                THEN DictSet(parsed, Upper(method),
                             [summary |-> Get(method_spec, "summary", <<>>),
                              description |-> Get(method_spec, "description", <<>>)])
                ELSE parsed)

\* CapabilityDiscovery._parse_openapi_spec
CD_parse_openapi_spec(spec) ==
    LET paths == Get(spec, "paths", <<>>)
    IN  [info |-> Get(spec, "info", EmptyDict),
         paths |-> [i \in 1..Len(paths) |->
                      <<paths[i][1], CD_parse_methods(paths[i][2], <<>>)>>],
         components |-> EmptyDict,
         servers |-> <<>>]

\* CapabilityDiscovery.__init__
CD_init(base_url, timeout) ==
    [base_url |-> RstripSlash(base_url), timeout |-> timeout, cached_capabilities |-> None]

\* mutant: the cache is never consulted
CD_discover_capabilities_always_fetch(self, force_refresh, answer) ==
    IF answer.kind = "exc" \/ answer.status >= 400 \/ answer.kind = "badjson"
    THEN [ret |-> EmptyDict, self |-> self, fetched |-> 1]
    ELSE [ret |-> CD_parse_openapi_spec(answer.doc),
          self |-> [self EXCEPT !.cached_capabilities = CD_parse_openapi_spec(answer.doc)],
          fetched |-> 1]

\* CapabilityDiscovery.discover_capabilities: what it returns (ret), the
\* instance afterwards (self) and the schema fetches it issued (fetched)
CD_discover_capabilities(self, force_refresh, answer) ==
    IF Truthy(self.cached_capabilities) /\ ~force_refresh
    THEN [ret |-> self.cached_capabilities, self |-> self, fetched |-> 0]
    ELSE IF ~REQUESTS_AVAILABLE
    THEN [ret |-> EmptyDict, self |-> self, fetched |-> 0]
    ELSE IF answer.kind = "exc" \/ RaisesForStatus(answer.status) \/ answer.kind = "badjson"
    THEN [ret |-> EmptyDict, self |-> self, fetched |-> 1]
    ELSE LET capabilities == CD_parse_openapi_spec(answer.doc)
         IN  [ret |-> capabilities,
              self |-> [self EXCEPT !.cached_capabilities = capabilities],
              fetched |-> 1]

\* CapabilityDiscovery._generate_tool_name
CD_generate_tool_name(path, method, spec) ==
    IF "operationId" \in DOMAIN spec THEN spec["operationId"]
    ELSE LET path_parts == ResourceParts(path)
         IN  IF path_parts # <<>>
             THEN <<Lower(method)>> \o <<"_">> \o JoinUnderscore(path_parts)
             ELSE <<Lower(method)>> \o <<"_">> \o <<"endpoint">>

\* spec.get("description") or spec.get("summary", "")
DescriptionOrSummary(spec) ==
    IF Get(spec, "description", <<>>) # <<>> THEN spec["description"]
    ELSE Get(spec, "summary", <<>>)

\* the tools CapabilityDiscovery.get_available_tools builds from capabilities
CD_tools_of(capabilities) ==
    LET paths == Get(capabilities, "paths", <<>>)
        ToolsOf(entry) ==
            [i \in 1..Len(entry[2]) |->
                [name |-> CD_generate_tool_name(entry[1], entry[2][i][1], entry[2][i][2]),
                 method |-> entry[2][i][1],
                 path |-> entry[1],
                 description |-> DescriptionOrSummary(entry[2][i][2])]]
    IN  Flatten([i \in 1..Len(paths) |-> ToolsOf(paths[i])])

\* CapabilityDiscovery.get_available_tools
CD_get_available_tools(self, answer) ==
    LET found == CD_discover_capabilities(self, FALSE, answer)
    IN  [ret |-> CD_tools_of(found.ret), self |-> found.self, fetched |-> found.fetched]

\* CapabilityDiscovery.clear_cache
CD_clear_cache(self) == [self EXCEPT !.cached_capabilities = None]

(***************************************************************************)
(* agent/refactored_agent.py: MCPAgent.                                    *)
(***************************************************************************)
\* ContextValidator.validate_context on a parsed mapping
ValidateContext(context) ==
    LET api == Get(context, "api", EmptyDict)
        tools == SelectSeq(Get(api, "tools", <<>>), LAMBDA t : "name" \in DOMAIN t)
    IN  [k \in DOMAIN context \cup {"api"} |->
            IF k = "api"
            THEN [f \in DOMAIN api \cup {"tools"} |-> IF f = "tools" THEN tools ELSE api[f]]
            ELSE context[k]]

\* YAMLParser._parse_with_pyyaml: the mapping, or the ValueError it raises
YAMLParser_parse_with_pyyaml(file) ==
    IF file.kind = "missing" THEN Returned([api |-> [tools |-> <<>>]])
    ELSE IF file.kind = "invalid"
    THEN Raised("ValueError", [text |-> "Error parsing"])
    ELSE LET data == IF Truthy(file.data) THEN file.data ELSE EmptyDict
         IN  IF ~IsDict(data)
             THEN Raised("ValueError", [text |-> "Model context must be a mapping"])
             ELSE Returned(data)

\* the body of the loop of YAMLParser._parse_fallback for one line
YAMLParser_parse_line(context, line) ==
    LET value == LineValue(line)
        bracketed == value # <<>> /\ Head(value) = "[" /\ value[Len(value)] = "]"
    IN  CASE line = <<>> \/ LineStartsWith(line, "#") -> context
          [] LineStartsWith(line, "schema_version:") ->
                SetItem(context, "schema_version", IntOrStr(value))
          [] LineStartsWith(line, "version:") ->
                [context EXCEPT !.api = SetItem(context.api, "version", value)]
          [] LineStartsWith(line, "- name:") ->
                [context EXCEPT !.api.tools = Append(context.api.tools, [name |-> value])]
          [] context.api.tools # <<>> /\ LineStartsWith(line, "method:") ->
                SetOnLastTool(context, "method", Word(value))
          [] context.api.tools # <<>> /\ LineStartsWith(line, "path:") ->
                SetOnLastTool(context, "path", value)
          [] context.api.tools # <<>> /\ LineStartsWith(line, "description:") ->
                SetOnLastTool(context, "description", value)
          [] context.api.tools # <<>> /\ LineStartsWith(line, "scopes:") /\ bracketed ->
                SetOnLastTool(context, "scopes", ScopeItems(value))
          [] OTHER -> context

RECURSIVE YAMLParser_parse_lines(_, _)
YAMLParser_parse_lines(context, lines) ==
    IF lines = <<>> THEN context
    ELSE YAMLParser_parse_lines(YAMLParser_parse_line(context, Head(lines)), Tail(lines))

\* YAMLParser._parse_fallback
YAMLParser_parse_fallback(file) ==
    IF file.kind = "missing" THEN [api |-> [tools |-> <<>>]]
    ELSE YAMLParser_parse_lines([api |-> [tools |-> <<>>]], file.lines)

\* YAMLParser.parse_context
YAMLParser_parse_context(file) ==
    IF YAML_AVAILABLE THEN YAMLParser_parse_with_pyyaml(file)
    ELSE Returned(YAMLParser_parse_fallback(file))

\* MCPAgent._initialize_context
Refactored_initialize_context(file) ==
    LET raw_context == YAMLParser_parse_context(file)
    IN  IF raw_context.kind = "raise" THEN [api |-> [tools |-> <<>>]]
        ELSE ValidateContext(raw_context.value)

\* MCPAgent._initialize_capabilities: the agent (self) and its
\* CapabilityDiscovery (disc) afterwards
Refactored_initialize_capabilities(self, disc, answer) ==
    LET found == CD_discover_capabilities(disc, FALSE, answer)
        fallback == [tools |-> Get(Get(self.context, "api", EmptyDict), "tools", <<>>)]
    IN  IF self.config.auto_discover
        THEN [self |-> [self EXCEPT !.capabilities =
                            IF Truthy(found.ret) THEN found.ret ELSE fallback],
              disc |-> found.self, fetched |-> found.fetched]
        ELSE [self |-> [self EXCEPT !.capabilities = fallback],
              disc |-> disc, fetched |-> 0]

\* MCPAgent.__init__
Refactored_init(base_url, file, auto_discover, timeout, answer) ==
    Refactored_initialize_capabilities(
        [config |-> [base_url |-> base_url, timeout |-> timeout,
                     auto_discover |-> auto_discover],
         context |-> Refactored_initialize_context(file),
         capabilities |-> EmptyDict],
        CD_init(base_url, timeout), answer)

\* MCPAgent.get_available_tools
Refactored_get_available_tools(self, disc, answer) ==
    IF "paths" \in DOMAIN self.capabilities
    THEN CD_get_available_tools(disc, answer)
    ELSE [ret |-> Get(Get(self.context, "api", EmptyDict), "tools", <<>>),
          self |-> disc, fetched |-> 0]

\* mutant: a name that is not registered resolves to the first tool
Refactored_find_tool_first_default(self, disc, tool_name, answer) ==
    LET tools == Refactored_get_available_tools(self, disc, answer)
    IN  [tools EXCEPT !.ret = IF FirstNamed(tools.ret, tool_name) = None /\ tools.ret # <<>>
                              THEN Head(tools.ret)
                              ELSE FirstNamed(tools.ret, tool_name)]

\* MCPAgent.find_tool
Refactored_find_tool(self, disc, tool_name, answer) ==
    LET tools == Refactored_get_available_tools(self, disc, answer)
    IN  [tools EXCEPT !.ret = FirstNamed(tools.ret, tool_name)]

\* mutant: refresh re-initializes without clearing the cache
Refactored_refresh_capabilities_keep_cache(self, disc, answer) ==
    IF self.config.auto_discover
    THEN Refactored_initialize_capabilities(self, disc, answer)
    ELSE [self |-> self, disc |-> disc, fetched |-> 0]

\* MCPAgent.refresh_capabilities
Refactored_refresh_capabilities(self, disc, answer) ==
    IF self.config.auto_discover
    THEN Refactored_initialize_capabilities(self, CD_clear_cache(disc), answer)
    ELSE [self |-> self, disc |-> disc, fetched |-> 0]

\* the except clauses of MCPAgent._make_request
Refactored_handle(exc) ==
    LET clause == CaughtBy(<<"HTTPError", "RequestException">>, exc.exc)
    IN  CASE clause = "HTTPError" ->
                Raised("RuntimeError", [text |-> "HTTP error", status_code |-> exc.status_code,
                                        reason |-> exc.reason])
          [] clause = "RequestException" ->
                Raised("RuntimeError", [text |-> "Request error", exc |-> exc.exc])
          [] OTHER -> Raised(exc.exc, [text |-> "uncaught"])

\* MCPAgent._make_request
Refactored_make_request(self, method, path, token, params, data, answer) ==
    IF ~REQUESTS_AVAILABLE
    THEN [sent |-> <<>>, result |-> Raised("RuntimeError", [text |-> "Requests library not available"])]
    ELSE LET trip == RoundTrip(answer)
         IN  [sent |-> << [method |-> method, url |-> self.config.base_url \o path,
                           headers |-> AuthHeaders(token),
                           params |-> params, json |-> data,
                           timeout |-> self.config.timeout] >>,
              result |-> IF trip.raised THEN Refactored_handle(trip)
                         ELSE Returned(trip.json)]

\* MCPAgent.list_herd: the dispatch (sent, result) and the CapabilityDiscovery
\* afterwards (disc, fetched)
Refactored_list_herd(self, disc, token, schema_answer, answer) ==
    LET found == Refactored_find_tool(self, disc, <<"listHerd">>, schema_answer)
        tool == found.ret
        out == IF ~Truthy(tool)
               THEN [sent |-> <<>>,
                     result |-> Raised("ValueError", [text |-> "listHerd tool not found in model context"])]
               ELSE IF "path" \notin DOMAIN tool
               THEN [sent |-> <<>>,
                     result |-> Raised("ValueError", [text |-> "listHerd tool path not found"])]
               ELSE Refactored_make_request(self, Get(tool, "method", "GET"), tool.path,
                                            token, None, None, answer)
    IN  [sent |-> out.sent, result |-> out.result, disc |-> found.self, fetched |-> found.fetched]


(***************************************************************************)
(* app/: the FastAPI backend. A request runs get_current_user, opens a     *)
(* transaction (get_db), runs the endpoint, and commits or rolls back; an  *)
(* exception that leaves the endpoint is turned into a response by the     *)
(* handlers of app/main.py. Time is in seconds.                            *)
(***************************************************************************)
\* timedelta(minutes=5)
TokenMargin == 5 * 60

\* settings.access_token_expire_minutes, in seconds
ACCESS_TOKEN_EXPIRE == 30 * 60

\* the instants the clock can show
ClockValues == {k * TokenMargin : k \in 0..MaxTicks}

\* the ids requests name: none (0), seeded, and not yet given out
HerdIds == 0..MaxHerdId

\* app/seed.py: the rows of the herd table after seed()
SeedRows ==
    [herd_id \in {1, 2} |->
        IF herd_id = 1 THEN [name |-> <<"Alpha Farm">>, location |-> <<"Wisconsin">>]
        ELSE [name |-> <<"Beta Farm">>, location |-> <<"California">>]]

\* UserService._users_db; a bcrypt hash is modelled by the password it hashes
users_db ==
    [username \in {"johndoe", "alice", "disabled_user"} |->
        [username |-> username,
         hashed_password |-> IF username = "alice" THEN <<"bcrypt", "wonderland">>
                             ELSE <<"bcrypt", "secret">>,
         disabled |-> username = "disabled_user"]]

\* user_service.get_user
get_user(username) == IF username \in DOMAIN users_db THEN users_db[username] ELSE None

\* pwd_context.verify
verify_password(plain_password, hashed_password) ==
    hashed_password = <<"bcrypt", plain_password>>

\* AuthenticatedUserModel.from_db_user: a pydantic model, not a dict
AuthenticatedUserModel(db_user) ==
    [class |-> "AuthenticatedUserModel", username |-> db_user.username,
     disabled |-> Get(db_user, "disabled", FALSE), user_type |-> Get(db_user, "type", "standard")]

\* mutant: the disabled flag is not looked at
authenticate_user_any_status(username, password) ==
    LET user == get_user(username)
    IN  IF user = None THEN None
        ELSE IF ~verify_password(password, user.hashed_password) THEN None
        ELSE AuthenticatedUserModel(user)

\* authenticate_user
authenticate_user(username, password) ==
    LET user == get_user(username)
    IN  IF user = None THEN None
        ELSE IF ~verify_password(password, user.hashed_password) THEN None
        ELSE IF Get(user, "disabled", FALSE) THEN None
        ELSE AuthenticatedUserModel(user)

\* settings.secret_key
SECRET_KEY == "secret_key"

\* python-jose could be imported (else StubJWTProvider is used)
JOSE_AVAILABLE == TRUE

\* jwt_provider.encode
jwt_encode(payload, key) ==
    IF JOSE_AVAILABLE THEN [kind |-> "jwt", key |-> key, payload |-> payload]
    ELSE [kind |-> "text", text |-> "dev-stub-token"]

\* jwt_provider.decode: the payload, or the ValueError it raises
jwt_decode(token, key, clock) ==
    IF JOSE_AVAILABLE
    THEN IF token.kind # "jwt" THEN Raised("ValueError", [text |-> "Invalid JWT token"])
         ELSE IF token.key # key THEN Raised("ValueError", [text |-> "Invalid JWT token"])
         ELSE IF "exp" \in DOMAIN token.payload /\ token.payload.exp < clock
         THEN Raised("ValueError", [text |-> "Invalid JWT token"])
         ELSE Returned(token.payload)
    ELSE IF token = [kind |-> "text", text |-> "dev-stub-token"]
         THEN Returned([sub |-> "development_user", exp |-> clock + 3600])
         ELSE Returned(EmptyDict)

\* create_access_token
create_access_token(data, expires_delta, clock) ==
    jwt_encode([k \in DOMAIN data \cup {"exp"} |->
                    IF k = "exp" THEN clock + expires_delta ELSE data[k]],
               SECRET_KEY)

\* mutant: the expiry of the token is not checked
verify_token_ignore_expiry(token, clock) ==
    IF token.kind = "jwt" /\ token.key = SECRET_KEY THEN Returned(token.payload)
    ELSE Raised("AuthenticationError", [text |-> "Invalid or expired token"])

\* verify_token
verify_token(token, clock) ==
    LET payload == jwt_decode(token, SECRET_KEY, clock)
    IN  IF payload.kind = "raise"
        THEN Raised("AuthenticationError", [text |-> "Invalid or expired token"])
        ELSE payload

HTTPException(status_code, detail) ==
    Raised("HTTPException", [status_code |-> status_code, text |-> detail])

\* get_current_user behind oauth2_scheme: the user, or the HTTPException
get_current_user(token, clock) ==
    IF token = None THEN HTTPException(401, "Not authenticated")
    ELSE LET payload == verify_token(token, clock)
         IN  IF payload.kind = "raise"
             THEN HTTPException(401, "Could not validate credentials")
             ELSE IF "sub" \notin DOMAIN payload.value
             THEN HTTPException(401, "Could not validate credentials")
             ELSE LET user == get_user(payload.value.sub)
                  IN  IF user = None
                      THEN HTTPException(401, "Could not validate credentials")
                      ELSE IF Get(user, "disabled", FALSE)
                      THEN HTTPException(403, "User account is disabled")
                      ELSE Returned(AuthenticatedUserModel(user))

\* login_for_access_token: the response body, or the HTTPException
login_for_access_token(username, password, clock) ==
    LET user == authenticate_user(username, password)
    IN  IF user = None THEN HTTPException(401, "Incorrect username or password")
        ELSE Returned([access_token |->
                          create_access_token([sub |-> user.username],
                                              ACCESS_TOKEN_EXPIRE, clock),
                       token_type |-> "bearer"])

\* HerdRepository: the herd table is db.rows, the AUTOINCREMENT counter db.seq
HerdRepository_get_by_id(db, herd_id) ==
    IF herd_id \in DOMAIN db.rows
    THEN [k \in {"id", "name", "location"} |->
            IF k = "id" THEN herd_id ELSE db.rows[herd_id][k]]
    ELSE None

HerdRepository_exists(db, herd_id) == herd_id \in DOMAIN db.rows

HerdRepository_count(db) == Cardinality(DOMAIN db.rows)

HerdRepository_create(db, herd_data) ==
    [rows |-> [i \in DOMAIN db.rows \cup {db.seq + 1} |->
                    IF i = db.seq + 1 THEN herd_data ELSE db.rows[i]],
     seq |-> db.seq + 1]

HerdRepository_update(db, herd_id, herd_data) ==
    IF herd_id \notin DOMAIN db.rows THEN db
    ELSE [db EXCEPT !.rows[herd_id] =
            [k \in {"name", "location"} |->
                IF k \in DOMAIN herd_data THEN herd_data[k] ELSE @[k]]]

HerdRepository_delete(db, herd_id) ==
    [db EXCEPT !.rows = [i \in DOMAIN db.rows \ {herd_id} |-> db.rows[i]]]

\* settings.max_query_limit
max_query_limit == 1000

\* HerdService: what the call returns or raises (out) and the database
\* the open transaction then sees (db)
HerdService_get_herds(db, skip, limit) ==
    IF skip < 0 \/ limit <= 0 \/ limit > max_query_limit
    THEN [db |-> db, out |-> Raised("ValidationError", [text |-> "pagination"])]
    ELSE LET total == HerdRepository_count(db)
             left == IF total > skip THEN total - skip ELSE 0
         IN  [db |-> db,
              out |-> Returned([items |-> IF left < limit THEN left ELSE limit,
                                total |-> total, skip |-> skip, limit |-> limit])]

HerdService_get_herd_by_id(db, herd_id) ==
    IF herd_id <= 0
    THEN [db |-> db, out |-> Raised("ValidationError", [text |-> "Herd ID must be positive"])]
    ELSE IF HerdRepository_get_by_id(db, herd_id) = None
    THEN [db |-> db, out |-> Raised("ResourceNotFoundError", [text |-> "Herd not found"])]
    ELSE [db |-> db, out |-> Returned(HerdRepository_get_by_id(db, herd_id))]

HerdService_create_herd(db, herd_data) ==
    LET created == HerdRepository_create(db, herd_data)
    IN  [db |-> created, out |-> Returned(HerdRepository_get_by_id(created, created.seq))]

HerdService_update_herd(db, herd_id, herd_data) ==
    IF herd_id <= 0
    THEN [db |-> db, out |-> Raised("ValidationError", [text |-> "Herd ID must be positive"])]
    ELSE IF ~HerdRepository_exists(db, herd_id)
    THEN [db |-> db, out |-> Raised("ResourceNotFoundError", [text |-> "Herd not found"])]
    ELSE LET updated == HerdRepository_update(db, herd_id, herd_data)
         IN  [db |-> updated, out |-> Returned(HerdRepository_get_by_id(updated, herd_id))]

HerdService_delete_herd(db, herd_id) ==
    IF herd_id <= 0
    THEN [db |-> db, out |-> Raised("ValidationError", [text |-> "Herd ID must be positive"])]
    ELSE IF ~HerdRepository_exists(db, herd_id)
    THEN [db |-> db, out |-> Raised("ResourceNotFoundError", [text |-> "Herd not found"])]
    ELSE [db |-> HerdRepository_delete(db, herd_id), out |-> Returned(None)]

\* the names app/api/v1/endpoints/herd.py imports from app.exceptions that
\* are exception classes; HerdNotFoundError is bound to a lambda
ExceptionClasses == {"ValidationError", "DatabaseError", "Exception"}

\* the except clauses of an endpoint, tried in order on a raised exception:
\* the first matching class raises its HTTPException, and a clause whose
\* name is not a class raises TypeError as soon as it is reached
RECURSIVE EndpointExcept(_, _)
EndpointExcept(clauses, raised) ==
    IF clauses = <<>> THEN raised
    ELSE IF Head(clauses).catch \notin ExceptionClasses
    THEN Raised("TypeError", [text |-> "catching classes that do not inherit from BaseException is not allowed"])
    ELSE IF Head(clauses).catch \in Bases(raised.type)
    THEN HTTPException(Head(clauses).status_code, "detail")
    ELSE EndpointExcept(Tail(clauses), raised)

\* the clauses of list_herds and create_herd, and of the endpoints that
\* take a herd_id
PlainClauses ==
    << [catch |-> "ValidationError", status_code |-> 400],
       [catch |-> "DatabaseError", status_code |-> 500],
       [catch |-> "Exception", status_code |-> 500] >>

NotFoundClauses ==
    << [catch |-> "ValidationError", status_code |-> 400],
       [catch |-> "HerdNotFoundError", status_code |-> 404],
       [catch |-> "DatabaseError", status_code |-> 500],
       [catch |-> "Exception", status_code |-> 500] >>

\* the try statement of a herd endpoint: the service call, then the
\* logger.info line that evaluates current_user.get('sub')
EndpointTry(served, current_user, clauses) ==
    IF served.out.kind = "raise" THEN EndpointExcept(clauses, served.out)
    ELSE IF current_user.class # "dict"
    THEN EndpointExcept(clauses, Raised("AttributeError", [text |-> "get"]))
    ELSE served.out

\* get_db around the endpoint: commit when it returned, else rollback and
\* DatabaseError("unexpected")
get_db(before, served, outcome) ==
    IF outcome.kind = "raise"
    THEN [db |-> before,
          out |-> Raised("DatabaseError", [text |-> "unexpected", original_error |-> outcome.type])]
    ELSE [db |-> served.db, out |-> outcome]

\* the exception handlers of app/main.py and FastAPI's own for HTTPException;
\* status_code_map is keyed by the category each exception class sets
status_code_map ==
    [ValidationError |-> 422, AuthenticationError |-> 401, AuthorizationError |-> 403,
     BusinessLogicError |-> 400, ResourceNotFoundError |-> 400, DatabaseError |-> 500]

Response(status_code, body) == [kind |-> "response", status_code |-> status_code, body |-> body]

exception_handler(raised) ==
    IF raised.type = "HTTPException" THEN Response(raised.msg.status_code, None)
    ELSE IF raised.type \in DOMAIN status_code_map
    THEN Response(status_code_map[raised.type], None)
    ELSE Response(500, None)

\* one request to a herd endpoint: the response and the database afterwards
HerdRequest(db, token, clock, served_by(_, _), clauses, success_code) ==
    LET current_user == get_current_user(token, clock)
    IN  IF current_user.kind = "raise"
        THEN [db |-> db, response |-> exception_handler(current_user)]
        ELSE LET served == served_by(db, current_user.value)
                 outcome == EndpointTry(served, current_user.value, clauses)
                 closed == get_db(db, served, outcome)
             IN  [db |-> closed.db,
                  response |-> IF closed.out.kind = "raise"
                               THEN exception_handler(closed.out)
                               ELSE Response(success_code, closed.out.value)]


(***************************************************************************)
(* bovisync_mcp/server.py and dairy_farm_mcp/server.py: the two MCP        *)
(* servers authenticate against their upstream API in the same way.        *)
(***************************************************************************)
ServerClasses == {"BovisyncMCPServer", "DairyFarmMCPServer"}

\* __init__: client_id and client_secret are absent when neither the
\* argument nor the environment gives them; no token is stored
MCPServer_init(class, with_credentials) ==
    LET self == [class |-> class,
                 base_url |-> IF class = "BovisyncMCPServer"
                              THEN <<"https://api.bovisync.com">>
                              ELSE <<"https://eval.nationaldairyfarm.com/dfdm/api">>]
    IN  IF with_credentials
        THEN SetItem(SetItem(self, "client_id", <<"id">>), "client_secret", <<"secret">>)
        ELSE self

\* the URL authenticate posts to
token_url(self) ==
    self.base_url \o (IF self.class = "BovisyncMCPServer" THEN <<"/auth/token/">>
                      ELSE <<"/oauth/token">>)

\* what the token endpoint may answer: a JSON object with or without
\* access_token and expires_in (a number of seconds, or text), a body that
\* is not JSON, a refusal, or no connection
TokenData ==
    LET tokens == {<<"T1">>, <<"T2">>}
        expiries == {[t |-> "int", v |-> 3 * TokenMargin], [t |-> "int", v |-> 3600],
                     [t |-> "str", v |-> <<"3600">>]}
    IN  {[access_token |-> a, expires_in |-> e] : a \in tokens, e \in expiries}
        \cup {[access_token |-> a] : a \in tokens}
        \cup {[expires_in |-> [t |-> "int", v |-> 3600]]}

TokenAnswers ==
    {[kind |-> "response", status_code |-> 200, json |-> d] : d \in TokenData}
    \cup {[kind |-> "badjson", status_code |-> 200],
          [kind |-> "response", status_code |-> 401, json |-> EmptyDict],
          [kind |-> "exc", exc |-> "ConnectError"]}

\* what the upstream API may answer to the request itself
ApiAnswers ==
    {[kind |-> "response", status_code |-> 200, content |-> <<[id |-> 1]>>],
     [kind |-> "response", status_code |-> 204, content |-> <<>>],
     [kind |-> "response", status_code |-> 404, content |-> <<>>],
     [kind |-> "exc", exc |-> "RequestError"]}

\* authenticate: what it returns (ret), the instance afterwards (self) and
\* the requests it sent (sent)
MCPServer_authenticate(self, clock, answer) ==
    IF "client_id" \notin DOMAIN self \/ "client_secret" \notin DOMAIN self
    THEN [ret |-> FALSE, self |-> self, sent |-> <<>>]
    ELSE IF /\ "access_token" \in DOMAIN self
            /\ "token_expires_at" \in DOMAIN self
            /\ clock < self.token_expires_at - TokenMargin
    THEN [ret |-> TRUE, self |-> self, sent |-> <<>>]
    ELSE LET post == [method |-> "POST", url |-> token_url(self)]
         IN  IF answer.kind = "exc" \/ answer.kind = "badjson"
             THEN [ret |-> FALSE, self |-> self, sent |-> <<post>>]
             ELSE IF answer.status_code # 200
             THEN [ret |-> FALSE, self |-> self, sent |-> <<post>>]
             ELSE LET token_data == answer.json
                      \* self.access_token = token_data.get("access_token")
                      assigned ==
                        IF "access_token" \in DOMAIN token_data
                        THEN SetItem(self, "access_token", token_data.access_token)
                        ELSE [k \in DOMAIN self \ {"access_token"} |-> self[k]]
                      expires_in == Get(token_data, "expires_in", [t |-> "int", v |-> 3600])
                  IN  IF expires_in.t # "int"
                      \* timedelta(seconds=expires_in) raises TypeError
                      THEN [ret |-> FALSE, self |-> assigned, sent |-> <<post>>]
                      ELSE [ret |-> TRUE,
                            self |-> SetItem(assigned, "token_expires_at", clock + expires_in.v),
                            sent |-> <<post>>]

\* make_request: the instance afterwards, the requests sent, what
\* authenticate returned, and the result
MCPServer_make_request(self, clock, method, path, token_answer, api_answer) ==
    LET auth == MCPServer_authenticate(self, clock, token_answer)
        request == [method |-> method, url |-> auth.self.base_url \o path,
                    headers |-> [Authorization |->
                        <<"Bearer ">> \o (IF "access_token" \in DOMAIN auth.self
                                          THEN auth.self.access_token ELSE <<"None">>)]]
    IN  IF ~auth.ret
        THEN [self |-> auth.self, sent |-> auth.sent, authenticate |-> FALSE,
              result |-> HTTPException(401, "Failed to authenticate")]
        ELSE [self |-> auth.self, sent |-> Append(auth.sent, request), authenticate |-> TRUE,
              result |->
                IF api_answer.kind = "exc" THEN HTTPException(502, "Failed to connect")
                ELSE IF api_answer.status_code \in {200, 201, 202, 204}
                THEN IF api_answer.content # <<>> THEN Returned(api_answer.content)
                     ELSE Returned([status |-> "success"])
                ELSE HTTPException(api_answer.status_code, "API request failed")]

(***************************************************************************)
(* Specification Spec: both agents are constructed against one backend and *)
(* one context file, then operations are dispatched through them.          *)
(***************************************************************************)
NoResult == [kind |-> "none"]
NoReply == [kind |-> "none"]
Idle == [op |-> "idle"]

Constructed(base_url, file, auto_discover, answer) ==
    LET r == Refactored_init(base_url, file, auto_discover, DefaultTimeout, answer)
    IN  /\ backend = answer
        /\ context_file = file
        /\ refresher = [pc |-> "idle"]
        /\ legacy = MCPAgent_init(base_url, file, auto_discover, DefaultTimeout, answer)
        /\ refactored = r.self
        /\ discovery = r.disc
        /\ fetches = r.fetched
        /\ call = Idle
        /\ sent = <<>>
        /\ reply = NoReply
        /\ result = NoResult
        /\ database = [rows |-> SeedRows, seq |-> Cardinality(DOMAIN SeedRows)]
        /\ now = 0
        /\ _agent_instance = None
        /\ resolving = [req \in 1..MaxResolvers |-> [pc |-> "idle"]]
        /\ agents = <<>>

Init ==
    /\ \E base_url \in BaseUrls, file \in ContextFiles, auto_discover \in BOOLEAN,
          answer \in SchemaAnswers :
            Constructed(base_url, file, auto_discover, answer)
    /\ server = MCPServer_init("BovisyncMCPServer", TRUE)

\* agent.execute_operation(tool_name, token, **kwargs) on the legacy agent
Execute ==
    /\ call = Idle
    /\ IsInstance(legacy)
    /\ \E tool_name \in ToolNames, token \in Tokens, kwargs \in AllKwargs,
       answer \in TransportAnswers :
        LET out == MCPAgent_execute_operation(legacy, tool_name, token, kwargs, answer)
        IN  /\ call' = [op |-> "execute_operation", tool_name |-> tool_name,
                        token |-> token, kwargs |-> kwargs]
            /\ sent' = out.sent
            /\ reply' = IF out.sent = <<>> THEN NoReply ELSE answer
            /\ result' = out.result
            /\ UNCHANGED <<backend, context_file, refresher, legacy, refactored, discovery, fetches, app_vars>>

\* agent.list_herd(token) on the legacy agent
ListHerd ==
    /\ call = Idle
    /\ IsInstance(legacy)
    /\ \E token \in Tokens, answer \in TransportAnswers :
        LET out == MCPAgent_list_herd(legacy, token, answer)
        IN  /\ call' = [op |-> "list_herd", token |-> token]
            /\ sent' = out.sent
            /\ reply' = IF out.sent = <<>> THEN NoReply ELSE answer
            /\ result' = out.result
            /\ UNCHANGED <<backend, context_file, refresher, legacy, refactored, discovery, fetches, app_vars>>

\* agent.list_herd(token) on the refactored agent
RefactoredListHerd ==
    /\ call = Idle
    /\ IsInstance(legacy)
    /\ \E token \in Tokens, answer \in TransportAnswers :
        LET out == Refactored_list_herd(refactored, discovery, token, backend, answer)
        IN  /\ fetches + out.fetched <= MaxFetches
            /\ call' = [op |-> "refactored.list_herd", token |-> token]
            /\ sent' = out.sent
            /\ reply' = IF out.sent = <<>> THEN NoReply ELSE answer
            /\ result' = out.result
            /\ discovery' = out.disc
            /\ fetches' = fetches + out.fetched
            /\ UNCHANGED <<backend, context_file, refresher, legacy, refactored, app_vars>>

\* agent.get_available_tools() on the legacy agent
GetAvailableTools ==
    /\ call = Idle
    /\ IsInstance(legacy)
    /\ call' = [op |-> "get_available_tools"]
    /\ sent' = <<>>
    /\ reply' = NoReply
    /\ result' = MCPAgent_get_available_tools(legacy)
    /\ UNCHANGED <<backend, context_file, refresher, legacy, refactored, discovery, fetches, app_vars>>

\* agent.find_tool(tool_name) on the legacy agent
FindTool ==
    /\ call = Idle
    /\ IsInstance(legacy)
    /\ \E tool_name \in ToolNames :
        /\ call' = [op |-> "find_tool", tool_name |-> tool_name]
        /\ sent' = <<>>
        /\ reply' = NoReply
        /\ result' = MCPAgent_find_tool(legacy, tool_name)
        /\ UNCHANGED <<backend, context_file, refresher, legacy, refactored, discovery, fetches, app_vars>>

\* the call returns (or raises) to its caller; the agents are idle again
Return ==
    /\ call # Idle
    /\ call' = Idle
    /\ sent' = <<>>
    /\ reply' = NoReply
    /\ result' = NoResult
    /\ UNCHANGED <<backend, context_file, refresher, legacy, refactored, discovery, fetches, app_vars>>

Next ==
    Execute \/ ListHerd \/ RefactoredListHerd \/ GetAvailableTools \/ FindTool \/ Return

Spec == Init /\ [][Next]_vars



(***************************************************************************)
(* Specification SpecDiscovery: the refactored agent and its               *)
(* CapabilityDiscovery are constructed, then discovery, listing and        *)
(* refresh calls are made while the schema endpoint changes its answer.    *)
(***************************************************************************)
\* capability_discovery.discover_capabilities(force_refresh)
Discover ==
    /\ call = Idle
    /\ \E force_refresh \in BOOLEAN :
        LET out == CD_discover_capabilities(discovery, force_refresh, backend)
        IN  /\ fetches + out.fetched <= MaxFetches
            /\ call' = [op |-> "discover_capabilities", force_refresh |-> force_refresh]
            /\ result' = Returned(out.ret)
            /\ discovery' = out.self
            /\ fetches' = fetches + out.fetched
            /\ UNCHANGED <<backend, context_file, refresher, legacy, refactored, sent, reply, app_vars>>

\* capability_discovery.get_available_tools()
DiscoveryTools ==
    /\ call = Idle
    /\ LET out == CD_get_available_tools(discovery, backend)
       IN  /\ fetches + out.fetched <= MaxFetches
           /\ call' = [op |-> "discovery.get_available_tools"]
           /\ result' = Returned(out.ret)
           /\ discovery' = out.self
           /\ fetches' = fetches + out.fetched
           /\ UNCHANGED <<backend, context_file, refresher, legacy, refactored, sent, reply, app_vars>>

\* agent.get_available_tools() on the refactored agent
AgentTools ==
    /\ call = Idle
    /\ LET out == Refactored_get_available_tools(refactored, discovery, backend)
       IN  /\ fetches + out.fetched <= MaxFetches
           /\ call' = [op |-> "agent.get_available_tools"]
           /\ result' = Returned(out.ret)
           /\ discovery' = out.self
           /\ fetches' = fetches + out.fetched
           /\ UNCHANGED <<backend, context_file, refresher, legacy, refactored, sent, reply, app_vars>>

\* agent.find_tool(tool_name) on the refactored agent
AgentFindTool ==
    /\ call = Idle
    /\ \E tool_name \in ToolNames :
        LET out == Refactored_find_tool(refactored, discovery, tool_name, backend)
        IN  /\ fetches + out.fetched <= MaxFetches
            /\ call' = [op |-> "agent.find_tool", tool_name |-> tool_name]
            /\ result' = Returned(out.ret)
            /\ discovery' = out.self
            /\ fetches' = fetches + out.fetched
            /\ UNCHANGED <<backend, context_file, refresher, legacy, refactored, sent, reply, app_vars>>

\* agent.refresh_capabilities() on the refactored agent
Refresh ==
    /\ call = Idle
    /\ LET out == Refactored_refresh_capabilities(refactored, discovery, backend)
       IN  /\ fetches + out.fetched <= MaxFetches
           /\ call' = [op |-> "refresh_capabilities"]
           /\ result' = Returned(None)
           /\ refactored' = out.self
           /\ discovery' = out.disc
           /\ fetches' = fetches + out.fetched
           /\ UNCHANGED <<backend, context_file, refresher, legacy, sent, reply, app_vars>>

\* the schema endpoint starts answering something else
BackendChange ==
    /\ call = Idle
    /\ \E answer \in SchemaAnswers \ {backend} : backend' = answer
    /\ UNCHANGED <<context_file, refresher, legacy, refactored, discovery, fetches, call, sent, reply, result, app_vars>>

NextDiscovery ==
    \/ Discover
    \/ DiscoveryTools
    \/ AgentTools
    \/ AgentFindTool
    \/ GetAvailableTools
    \/ FindTool
    \/ Refresh
    \/ BackendChange
    \/ Return

SpecDiscovery == Init /\ [][NextDiscovery]_vars

(***************************************************************************)
(* Specification SpecConcurrent: one thread runs refresh_capabilities on   *)
(* the refactored agent statement by statement while another thread reads  *)
(* the registry and dispatches; nothing in the code locks either.          *)
(***************************************************************************)
\* what list_herd does with the tool it resolved (the statements after find_tool)
Refactored_list_herd_request(self, tool, token, answer) ==
    IF ~Truthy(tool)
    THEN [sent |-> <<>>,
          result |-> Raised("ValueError", [text |-> "listHerd tool not found in model context"])]
    ELSE IF "path" \notin DOMAIN tool
    THEN [sent |-> <<>>,
          result |-> Raised("ValueError", [text |-> "listHerd tool path not found"])]
    ELSE Refactored_make_request(self, Get(tool, "method", "GET"), tool.path,
                                 token, None, None, answer)

\* refresh_capabilities, first statement: capability_discovery.clear_cache()
RefreshClear ==
    /\ refresher.pc = "idle"
    /\ refactored.config.auto_discover
    /\ refresher' = [pc |-> "cleared",
                     old |-> Refactored_get_available_tools(refactored, discovery, backend).ret]
    /\ discovery' = CD_clear_cache(discovery)
    /\ UNCHANGED <<backend, context_file, legacy, refactored, fetches, call, sent, reply, result, app_vars>>

\* _initialize_capabilities, the call of discover_capabilities()
RefreshDiscover ==
    /\ refresher.pc = "cleared"
    /\ LET out == CD_discover_capabilities(discovery, FALSE, backend)
       IN  /\ fetches + out.fetched <= MaxFetches
           /\ refresher' = [pc |-> "discovered", old |-> refresher.old, found |-> out.ret]
           /\ discovery' = out.self
           /\ fetches' = fetches + out.fetched
    /\ UNCHANGED <<backend, context_file, legacy, refactored, call, sent, reply, result, app_vars>>

\* _initialize_capabilities, the assignment of self.capabilities
RefreshAssign ==
    /\ refresher.pc = "discovered"
    /\ refactored' =
            [refactored EXCEPT !.capabilities =
                IF Truthy(refresher.found) THEN refresher.found
                ELSE [tools |-> Get(Get(refactored.context, "api", EmptyDict), "tools", <<>>)]]
    /\ refresher' = [pc |-> "idle"]
    /\ UNCHANGED <<backend, context_file, legacy, discovery, fetches, call, sent, reply, result, app_vars>>

\* agent.list_herd(token), up to the return of find_tool("listHerd")
ListHerdResolve ==
    /\ call = Idle
    /\ \E token \in Tokens :
        LET out == Refactored_find_tool(refactored, discovery, <<"listHerd">>, backend)
        IN  /\ fetches + out.fetched <= MaxFetches
            /\ call' = [op |-> "refactored.list_herd.resolved", token |-> token, tool |-> out.ret]
            /\ discovery' = out.self
            /\ fetches' = fetches + out.fetched
            /\ UNCHANGED <<backend, context_file, refresher, legacy, refactored, sent, reply, result, app_vars>>

\* agent.list_herd(token), from there to its end
ListHerdRequest ==
    /\ call.op = "refactored.list_herd.resolved"
    /\ \E answer \in TransportAnswers :
        LET out == Refactored_list_herd_request(refactored, call.tool, call.token, answer)
        IN  /\ call' = [op |-> "refactored.list_herd", token |-> call.token, tool |-> call.tool]
            /\ sent' = out.sent
            /\ reply' = IF out.sent = <<>> THEN NoReply ELSE answer
            /\ result' = out.result
            /\ UNCHANGED <<backend, context_file, refresher, legacy, refactored, discovery, fetches, app_vars>>

\* the schema endpoint starts answering something else, between refreshes
BackendChangeQuiet ==
    /\ call = Idle
    /\ refresher.pc = "idle"
    /\ \E answer \in SchemaAnswers \ {backend} : backend' = answer
    /\ UNCHANGED <<context_file, refresher, legacy, refactored, discovery, fetches, call, sent, reply, result, app_vars>>

NextConcurrent ==
    \/ RefreshClear \/ RefreshDiscover \/ RefreshAssign
    \/ AgentTools \/ AgentFindTool \/ ListHerdResolve \/ ListHerdRequest
    \/ BackendChangeQuiet \/ Return

SpecConcurrent == Init /\ [][NextConcurrent]_vars

(***************************************************************************)
(* Specification SpecFunctions: the name generators and the static parsers *)
(* are called directly, on inputs drawn from the sets below.               *)
(***************************************************************************)
NamePaths ==
    {P_herd, P_herd_id, P_api_herd, P_farm_herd, <<"/">>, <<"/", "{", "herd_id", "}">>}

NameMethods == {"get", "GET", "post", "put", "delete", "patch", "head"}

OperationObjects ==
    {EmptyDict, [operationId |-> <<"listHerd">>], [summary |-> <<"List herds">>]}

\* agent._generate_tool_name(method, path, details) on the legacy agent
GenerateToolName ==
    /\ call = Idle
    /\ IsInstance(legacy)
    /\ \E method \in NameMethods, path \in NamePaths, details \in OperationObjects :
        /\ call' = [op |-> "_generate_tool_name", method |-> method, path |-> path,
                     details |-> details]
        /\ result' = Returned(MCPAgent_generate_tool_name(method, path, details))
    /\ UNCHANGED <<backend, context_file, refresher, legacy, refactored, discovery, fetches, sent, reply, app_vars>>

\* capability_discovery._generate_tool_name(path, method, spec)
DiscoveryGenerateToolName ==
    /\ call = Idle
    /\ \E method \in NameMethods, path \in NamePaths, details \in OperationObjects :
        /\ call' = [op |-> "discovery._generate_tool_name", method |-> method, path |-> path,
                     details |-> details]
        /\ result' = Returned(CD_generate_tool_name(path, method, details))
    /\ UNCHANGED <<backend, context_file, refresher, legacy, refactored, discovery, fetches, sent, reply, app_vars>>

\* MCPAgent._parse_context_fallback(path) and YAMLParser._parse_fallback(path)
\* on the context file
ParseContextFallback ==
    /\ call = Idle
    /\ \E parser \in {"MCPAgent._parse_context_fallback", "YAMLParser._parse_fallback"} :
        /\ call' = [op |-> parser]
        /\ result' = Returned(IF parser = "MCPAgent._parse_context_fallback"
                               THEN MCPAgent_parse_context_fallback(context_file)
                               ELSE YAMLParser_parse_fallback(context_file))
    /\ UNCHANGED <<backend, context_file, refresher, legacy, refactored, discovery, fetches, sent, reply, app_vars>>

\* the longest source file the fallback parsers are applied to
MaxLines == 3

\* the lines a context file is made of: tool declarations, the four field
\* markers, and a line with no recognized marker
FallbackLineSet ==
    { <<"- name:", "listHerd">>, <<"- name:", "getSheep">>,
      <<"method:", "GET">>, <<"path:", "/", "herd">>,
      <<"description:", "List all herd">>,
      <<"scopes:", "[", "herd:read", "]">>,
      <<"unexpected_line:", "should be skipped">> }

FallbackSources ==
    UNION { [1..n -> FallbackLineSet] : n \in 0..MaxLines }

\* MCPAgent._parse_context_fallback(path) and YAMLParser._parse_fallback(path)
\* on a file holding the given lines
ParseFallbackSource ==
    /\ call = Idle
    /\ \E parser \in {"MCPAgent", "YAMLParser"}, lines \in FallbackSources :
        /\ call' = [op |-> "parse_fallback", parser |-> parser, lines |-> lines]
        /\ result' = Returned(IF parser = "MCPAgent"
                               THEN MCPAgent_parse_context_fallback(
                                        [kind |-> "file", lines |-> lines])
                               ELSE YAMLParser_parse_fallback(
                                        [kind |-> "file", lines |-> lines]))
    /\ UNCHANGED <<backend, context_file, refresher, legacy, refactored, discovery, fetches, sent, reply, app_vars>>

NextFunctions ==
    \/ GenerateToolName
    \/ DiscoveryGenerateToolName
    \/ ParseContextFallback
    \/ ParseFallbackSource
    \/ Return

SpecFunctions == Init /\ [][NextFunctions]_vars

(***************************************************************************)
(* Specification SpecApi: requests are made to the FastAPI backend over    *)
(* the seeded database while the clock advances.                           *)
(***************************************************************************)
Usernames == {"johndoe", "alice", "disabled_user", "nonexistent"}
Passwords == {"secret", "wonderland", "wrongpassword"}

\* the payloads a bearer token may carry
TokenPayloads ==
    LET exps == ClockValues \cup {c + ACCESS_TOKEN_EXPIRE : c \in ClockValues}
        subs == {"johndoe", "disabled_user", "nonexistent"}
    IN  {[sub |-> s, exp |-> e] : s \in subs, e \in exps}
        \cup {[exp |-> e] : e \in exps}
        \cup {[sub |-> s] : s \in subs}

\* what a request carries as bearer token: nothing, text that is no JWT, a
\* JWT signed with the key of the application or with another key
BearerTokens ==
    {None, [kind |-> "text", text |-> "invalid-token"]}
    \cup {[kind |-> "jwt", key |-> k, payload |-> p] :
            k \in {SECRET_KEY, "other_key"}, p \in TokenPayloads}

HerdCreates == {[name |-> <<"Integration Test Farm">>, location |-> <<"Test Location">>]}
\* a HerdUpdate holds the fields that are not None
HerdUpdates == {[name |-> <<"Updated Test Farm">>], [location |-> <<"Test Location">>]}

InitApi ==
    /\ Constructed(CHOOSE base_url \in BaseUrls : TRUE, [kind |-> "missing"], FALSE,
                   [kind |-> "exc", exc |-> "ConnectionError"])
    /\ server = MCPServer_init("BovisyncMCPServer", TRUE)

\* GET /api/v1/herd
ApiListHerds ==
    /\ call = Idle
    /\ \E token \in BearerTokens, skip \in {0, 1}, limit \in {1, 100} :
        LET out == HerdRequest(database, token, now,
                               LAMBDA db, user : HerdService_get_herds(db, skip, limit),
                               PlainClauses, 200)
        IN  /\ call' = [op |-> "GET /herd", token |-> token, skip |-> skip, limit |-> limit]
            /\ result' = out.response
            /\ database' = out.db
    /\ UNCHANGED <<agent_vars, sent, reply, now, dep_vars, server>>

\* GET /api/v1/herd/{herd_id}
ApiGetHerd ==
    /\ call = Idle
    /\ \E token \in BearerTokens, herd_id \in HerdIds :
        LET out == HerdRequest(database, token, now,
                               LAMBDA db, user : HerdService_get_herd_by_id(db, herd_id),
                               NotFoundClauses, 200)
        IN  /\ call' = [op |-> "GET /herd/{herd_id}", token |-> token, herd_id |-> herd_id]
            /\ result' = out.response
            /\ database' = out.db
    /\ UNCHANGED <<agent_vars, sent, reply, now, dep_vars, server>>

\* POST /api/v1/herd
ApiCreateHerd ==
    /\ call = Idle
    /\ database.seq < MaxHerdId
    /\ \E token \in BearerTokens, herd_data \in HerdCreates :
        LET out == HerdRequest(database, token, now,
                               LAMBDA db, user : HerdService_create_herd(db, herd_data),
                               PlainClauses, 201)
        IN  /\ call' = [op |-> "POST /herd", token |-> token, herd_data |-> herd_data]
            /\ result' = out.response
            /\ database' = out.db
    /\ UNCHANGED <<agent_vars, sent, reply, now, dep_vars, server>>

\* PUT /api/v1/herd/{herd_id}
ApiUpdateHerd ==
    /\ call = Idle
    /\ \E token \in BearerTokens, herd_id \in HerdIds, herd_data \in HerdUpdates :
        LET out == HerdRequest(database, token, now,
                               LAMBDA db, user : HerdService_update_herd(db, herd_id, herd_data),
                               NotFoundClauses, 200)
        IN  /\ call' = [op |-> "PUT /herd/{herd_id}", token |-> token, herd_id |-> herd_id,
                        herd_data |-> herd_data]
            /\ result' = out.response
            /\ database' = out.db
    /\ UNCHANGED <<agent_vars, sent, reply, now, dep_vars, server>>

\* DELETE /api/v1/herd/{herd_id}
ApiDeleteHerd ==
    /\ call = Idle
    /\ \E token \in BearerTokens, herd_id \in HerdIds :
        LET out == HerdRequest(database, token, now,
                               LAMBDA db, user : HerdService_delete_herd(db, herd_id),
                               NotFoundClauses, 204)
        IN  /\ call' = [op |-> "DELETE /herd/{herd_id}", token |-> token, herd_id |-> herd_id]
            /\ result' = out.response
            /\ database' = out.db
    /\ UNCHANGED <<agent_vars, sent, reply, now, dep_vars, server>>

\* GET /api/v1/users/me
ApiUsersMe ==
    /\ call = Idle
    /\ \E token \in BearerTokens :
        LET current_user == get_current_user(token, now)
        IN  /\ call' = [op |-> "GET /users/me", token |-> token]
            /\ result' = IF current_user.kind = "raise" THEN exception_handler(current_user)
                         ELSE Response(200, [username |-> current_user.value.username,
                                             disabled |-> current_user.value.disabled])
    /\ UNCHANGED <<agent_vars, sent, reply, now, database, dep_vars, server>>

\* POST /api/v1/token
ApiToken ==
    /\ call = Idle
    /\ \E username \in Usernames, password \in Passwords :
        LET out == login_for_access_token(username, password, now)
        IN  /\ call' = [op |-> "POST /token", username |-> username, password |-> password]
            /\ result' = IF out.kind = "raise" THEN exception_handler(out)
                         ELSE Response(200, out.value)
    /\ UNCHANGED <<agent_vars, sent, reply, now, database, dep_vars, server>>

\* time passes
Tick ==
    /\ call = Idle
    /\ now + TokenMargin \in ClockValues
    /\ now' = now + TokenMargin
    /\ UNCHANGED <<agent_vars, call, sent, reply, result, database, dep_vars, server>>

NextApi ==
    \/ ApiListHerds
    \/ ApiGetHerd
    \/ ApiCreateHerd
    \/ ApiUpdateHerd
    \/ ApiDeleteHerd
    \/ ApiUsersMe
    \/ ApiToken
    \/ Tick
    \/ Return

SpecApi == InitApi /\ [][NextApi]_vars

(***************************************************************************)
(* Specification SpecAgentDep: requests of the FastAPI application resolve *)
(* the get_agent dependency, each in a thread of the worker pool.          *)
(***************************************************************************)
Resolvers == 1..MaxResolvers

\* if _agent_instance is None:
GetAgentCheck(req) ==
    /\ resolving[req].pc = "idle"
    /\ resolving' = [resolving EXCEPT ![req] =
            [pc |-> IF _agent_instance = None THEN "construct" ELSE "return"]]
    /\ UNCHANGED <<agent_vars, call, sent, reply, result, database, now,
                   _agent_instance, agents, server>>

\* MCPAgent(base_url=base_url, openai_api_key=openai_api_key): the schema
\* endpoint is asked, and the constructor returns an instance or raises
GetAgentConstruct(req) ==
    /\ resolving[req].pc = "construct"
    /\ LET agent == MCPAgent_init(CHOOSE base_url \in BaseUrls : TRUE, context_file,
                                  TRUE, DefaultTimeout, backend)
       IN  IF IsInstance(agent)
           THEN /\ agents' = Append(agents, agent)
                /\ resolving' = [resolving EXCEPT ![req] =
                        [pc |-> "store", instance |-> Len(agents) + 1]]
           ELSE /\ agents' = agents
                /\ resolving' = [resolving EXCEPT ![req] = [pc |-> "raised"]]
    /\ UNCHANGED <<agent_vars, call, sent, reply, result, database, now,
                   _agent_instance, server>>

\* _agent_instance = <the new instance>
GetAgentStore(req) ==
    /\ resolving[req].pc = "store"
    /\ _agent_instance' = [instance |-> resolving[req].instance]
    /\ resolving' = [resolving EXCEPT ![req] = [pc |-> "return"]]
    /\ UNCHANGED <<agent_vars, call, sent, reply, result, database, now, agents, server>>

\* return _agent_instance
GetAgentReturn(req) ==
    /\ resolving[req].pc = "return"
    /\ resolving' = [resolving EXCEPT ![req] =
            [pc |-> "done", value |-> _agent_instance.instance]]
    /\ UNCHANGED <<agent_vars, call, sent, reply, result, database, now,
                   _agent_instance, agents, server>>

\* the request is over; the thread serves the next one
GetAgentDone(req) ==
    /\ resolving[req].pc \in {"done", "raised"}
    /\ resolving' = [resolving EXCEPT ![req] = [pc |-> "idle"]]
    /\ UNCHANGED <<agent_vars, call, sent, reply, result, database, now,
                   _agent_instance, agents, server>>

NextAgentDep ==
    \/ \E req \in Resolvers : GetAgentCheck(req)
    \/ \E req \in Resolvers : GetAgentConstruct(req)
    \/ \E req \in Resolvers : GetAgentStore(req)
    \/ \E req \in Resolvers : GetAgentReturn(req)
    \/ \E req \in Resolvers : GetAgentDone(req)

SpecAgentDep == Init /\ [][NextAgentDep]_vars

(***************************************************************************)
(* Specification SpecServers: requests are made through make_request of a  *)
(* BovisyncMCPServer or a DairyFarmMCPServer while time passes.            *)
(***************************************************************************)
InitServers ==
    /\ Constructed(CHOOSE base_url \in BaseUrls : TRUE, [kind |-> "missing"], FALSE,
                   [kind |-> "exc", exc |-> "ConnectionError"])
    /\ \E class \in ServerClasses, with_credentials \in BOOLEAN :
            server = MCPServer_init(class, with_credentials)

\* await server.make_request(method, path)
MakeRequest ==
    /\ call = Idle
    /\ \E method \in {"GET", "POST"}, token_answer \in TokenAnswers, api_answer \in ApiAnswers :
        LET out == MCPServer_make_request(server, now, method, <<"/animal/data/">>,
                                          token_answer, api_answer)
        IN  /\ call' = [op |-> "make_request", method |-> method,
                        authenticate |-> out.authenticate]
            /\ sent' = out.sent
            /\ reply' = IF out.authenticate THEN api_answer
                        ELSE IF out.sent # <<>> THEN token_answer ELSE NoReply
            /\ result' = out.result
            /\ server' = out.self
    /\ UNCHANGED <<agent_vars, database, now, dep_vars>>

NextServers == MakeRequest \/ Tick \/ Return

SpecServers == InitServers /\ [][NextServers]_vars

(***************************************************************************)
(* Claims about dispatch, checked under Spec.                              *)
(***************************************************************************)
\* the registry the legacy agent resolves names in
LegacyTools ==
    LET tools == MCPAgent_get_available_tools(legacy)
    IN  IF tools.kind = "return" THEN tools.value ELSE <<>>

RegistryNames == {LegacyTools[i].name : i \in 1..Len(LegacyTools)}

\* the last call was execute_operation and its name is in the registry
Resolved == call.op = "execute_operation" /\ call.tool_name \in RegistryNames

\* the descriptor that call resolved: the first one carrying the name
ResolvedTool ==
    LegacyTools[CHOOSE i \in 1..Len(LegacyTools) :
                    /\ LegacyTools[i].name = call.tool_name
                    /\ \A j \in 1..(i - 1) : LegacyTools[j].name # call.tool_name]

\* the template with every placeholder {k}, k a key of kwargs, replaced by
\* str(kwargs[k]); the rest of the template is copied
RECURSIVE FillTemplate(_, _)
FillTemplate(template, kwargs) ==
    IF template = <<>> THEN <<>>
    ELSE LET hits == {i \in 1..Len(kwargs) : StartsWith(template, Placeholder(kwargs[i][1]))}
         IN  IF hits = {} THEN <<Head(template)>> \o FillTemplate(Tail(template), kwargs)
             ELSE LET i == CHOOSE i \in hits : TRUE
                  IN  Str(kwargs[i][2])
                      \o FillTemplate(SubSeq(template, Len(Placeholder(kwargs[i][1])) + 1,
                                             Len(template)), kwargs)

\* the keys of kwargs that are placeholders of the template
PathKeys(template, kwargs) ==
    {k \in KeySet(kwargs) : Contains(template, Placeholder(k))}

\* C1: when the template of the resolved operation has a placeholder {k} and
\* k is among the keyword arguments, the request URL is base_url + the
\* template with each such {k} replaced by str(kwargs[k]), and k is neither a
\* query parameter nor a field of the JSON body.
C1_PathSubstitution ==
    Resolved =>
        LET template == Get(ResolvedTool, "path", <<>>)
            keys == PathKeys(template, call.kwargs)
        IN  keys # {} =>
                /\ Len(sent) = 1
                /\ sent[1].url = legacy.base_url \o FillTemplate(template, call.kwargs)
                /\ \A k \in keys :
                    /\ k \notin KeySet(Get(sent[1], "params", <<>>))
                    /\ k \notin KeySet(Get(sent[1], "json", <<>>))

\* C1 restricted to keyword values that contain no "{": there the two
\* substitutions agree.
C1_PlainValues ==
    (Resolved /\ \A i \in 1..Len(call.kwargs) : ~Contains(Str(call.kwargs[i][2]), <<"{">>))
        => C1_PathSubstitution

\* C2: for a resolved operation whose template has no placeholder, POST, PUT
\* and PATCH send all keyword arguments as the JSON body and no query
\* parameters; GET sends them all as query parameters and no body.
C2_VerbRouting ==
    (Resolved /\ ~Contains(Get(ResolvedTool, "path", <<>>), <<"{">>)) =>
        LET method == Get(ResolvedTool, "method", "GET")
        IN  /\ Len(sent) = 1
            /\ method \in {"POST", "PUT", "PATCH"} =>
                    /\ Get(sent[1], "json", <<>>) = call.kwargs
                    /\ "params" \notin DOMAIN sent[1]
            /\ method = "GET" =>
                    /\ Get(sent[1], "params", <<>>) = call.kwargs
                    /\ "json" \notin DOMAIN sent[1]

C2_Witness ==
    /\ Resolved
    /\ Get(ResolvedTool, "method", "GET") = "POST"
    /\ ~Contains(Get(ResolvedTool, "path", <<>>), <<"{">>)
    /\ Len(call.kwargs) = 2
    /\ Len(sent) = 1
    /\ "json" \in DOMAIN sent[1]
    /\ sent[1].json = call.kwargs

\* C3: for a resolved operation whose method is not POST, PUT or PATCH (GET,
\* DELETE), every keyword argument that is not a path parameter is sent as a
\* query parameter.
C3_NonBodyVerbsSendQuery ==
    (Resolved /\ Get(ResolvedTool, "method", "GET") \notin {"POST", "PUT", "PATCH"}) =>
        LET template == Get(ResolvedTool, "path", <<>>)
        IN  /\ Len(sent) = 1
            /\ \A i \in 1..Len(call.kwargs) :
                  call.kwargs[i][1] \notin PathKeys(template, call.kwargs)
                      => \E j \in 1..Len(Get(sent[1], "params", <<>>)) :
                            sent[1].params[j] = call.kwargs[i]

\* C4: execute_operation with a name that is not in the registry raises the
\* not-found error naming it, sends no request and leaves the agent as it was.
C4_NotFound ==
    [][(call'.op = "execute_operation" /\ call'.tool_name \notin RegistryNames) =>
            /\ result' = Raised("ValueError",
                            [text |-> "Tool not found in discovered capabilities",
                             tool_name |-> call'.tool_name])
            /\ sent' = <<>>
            /\ legacy' = legacy]_vars

C4_Witness ==
    /\ call.op = "execute_operation"
    /\ call.tool_name \notin RegistryNames
    /\ RegistryNames # {}
    /\ result.kind = "raise"
    /\ result.type = "ValueError"
    /\ sent = <<>>

\* C5: when the transport answers a dispatch with a status >= 400, the call
\* raises the HTTP error carrying that status code and reason, and returns
\* no body.
C5_HttpError ==
    (sent # <<>> /\ reply.kind = "response" /\ reply.status >= 400) =>
        /\ result.kind = "raise"
        /\ result.msg.text = "HTTP error"
        /\ result.msg.status_code = reply.status
        /\ result.msg.reason = Reason(reply.status)

C5_Witness ==
    /\ call.op = "list_herd"
    /\ sent # <<>>
    /\ reply.kind = "response"
    /\ reply.status = 503
    /\ result.kind = "raise"
    /\ result.msg.text = "HTTP error"
    /\ result.msg.status_code = 503

\* the timeout the agent that served the last call is configured with
ConfiguredTimeout ==
    IF call.op = "refactored.list_herd" THEN refactored.config.timeout ELSE legacy.timeout

\* C6: in every dispatch path a transport timeout raises the timeout error
\* reporting the configured timeout, any other connection failure raises the
\* transport error, and a status >= 400 raises the HTTP error.
C6_ErrorMapping ==
    (sent # <<>> /\ result.kind = "raise") =>
        /\ (reply.kind = "exc" /\ "Timeout" \in Bases(reply.exc)) =>
                /\ result.msg.text = "Request timeout after"
                /\ result.msg.timeout = ConfiguredTimeout
        /\ (reply.kind = "exc" /\ "Timeout" \notin Bases(reply.exc)) =>
                result.msg.text = "Request error"
        /\ reply.kind = "response" => result.msg.text = "HTTP error"

\* C7: with a registry that comes from the static context, dispatching
\* listHerd (method GET) with token T sends one GET to base_url + the tool's
\* path with header Authorization: Bearer T, and a 200 answer is returned as
\* the parsed JSON body.
C7_ListHerdEndToEnd ==
    LET static == "context" \in DOMAIN legacy /\ ~Truthy(legacy.capabilities)
        tools == IF static THEN Get(Get(legacy.context, "api", EmptyDict), "tools", <<>>)
                 ELSE <<>>
        hits == {i \in 1..Len(tools) : tools[i].name = <<"listHerd">>}
        tool == tools[CHOOSE i \in hits : \A j \in hits : i <= j]
        dispatched == \/ call.op = "list_herd"
                      \/ call.op = "execute_operation" /\ call.tool_name = <<"listHerd">>
    IN  (static /\ hits # {} /\ dispatched /\ tool.method = "GET" /\ tool.path # <<>>) =>
            /\ Len(sent) = 1
            /\ sent[1].method = "GET"
            /\ sent[1].url = legacy.base_url \o tool.path
            /\ sent[1].headers = [Authorization |-> <<"Bearer ">> \o call.token]
            /\ (reply.kind = "response" /\ reply.status = 200) => result = Returned(reply.json)

C7_Witness ==
    /\ call.op = "execute_operation"
    /\ call.tool_name = <<"listHerd">>
    /\ call.kwargs = <<>>
    /\ "context" \in DOMAIN legacy
    /\ Len(sent) = 1
    /\ sent[1].url = <<"http://fakeapi.com">> \o P_api_herd
    /\ sent[1].headers = [Authorization |-> <<"Bearer ", "tok123">>]
    /\ reply.kind = "response"
    /\ reply.status = 200
    /\ result = Returned(<<[id |-> 1, name |-> <<"Sheepie">>]>>)

\* C8: every execute_operation call that resolves its operation sends exactly
\* one request, whatever the outcome, with the agent's configured timeout.
C8_OneRoundTrip ==
    Resolved =>
        /\ Len(sent) = 1
        /\ sent[1].timeout = legacy.timeout

C8_Witness ==
    /\ Resolved
    /\ reply.kind = "exc"
    /\ reply.exc = "Timeout"
    /\ Len(sent) = 1
    /\ sent[1].timeout = DefaultTimeout
    /\ result.kind = "raise"


(***************************************************************************)
(* Claims about discovery, checked under SpecDiscovery.                    *)
(***************************************************************************)
\* C9: while a discovered registry is cached, discover_capabilities without
\* force_refresh returns that registry, and the tool listing is the one built
\* from it; neither fetches the schema again nor touches the cache.
C9_UnforcedDiscoverIsMemoized ==
    [][Truthy(discovery.cached_capabilities) =>
        /\ (call'.op = "discover_capabilities" /\ ~call'.force_refresh) =>
                /\ result' = Returned(discovery.cached_capabilities)
                /\ discovery' = discovery
                /\ fetches' = fetches
        /\ (\/ call'.op = "discovery.get_available_tools"
            \/ call'.op = "agent.get_available_tools"
                    /\ "paths" \in DOMAIN refactored.capabilities) =>
                /\ result' = Returned(CD_tools_of(discovery.cached_capabilities))
                /\ discovery' = discovery
                /\ fetches' = fetches]_vars

C9_Witness ==
    /\ call.op = "discover_capabilities"
    /\ ~call.force_refresh
    /\ Truthy(discovery.cached_capabilities)
    /\ Len(discovery.cached_capabilities.paths) = 2
    /\ result = Returned(discovery.cached_capabilities)
    /\ backend.kind = "exc"
    /\ fetches = 1

\* the registry the cache holds; an empty cache holds the empty registry
CachedRegistry ==
    IF discovery.cached_capabilities = None THEN EmptyDict
    ELSE discovery.cached_capabilities

\* C10: after every discover_capabilities call, whether the schema was
\* parsed or discovery fell back, the registry the call returned is the
\* cached snapshot.
C10_ReturnedIsCached ==
    call.op = "discover_capabilities" => result.value = CachedRegistry


(***************************************************************************)
(* Claims about refresh and fallback, checked under SpecDiscovery.         *)
(***************************************************************************)
\* the schema endpoint serves a document that parses
Reachable(answer) == answer.kind = "response" /\ answer.status < 400

\* the (path, METHOD) pairs a schema document declares with a supported
\* method, in document order
DeclaredPairs(doc) ==
    LET paths == IF "paths" \in DOMAIN doc THEN doc.paths ELSE <<>>
        PairsOf(entry) ==
            LET kept == SelectSeq(entry[2], LAMBDA m : Upper(m[1]) \in SupportedMethods)
            IN  [i \in 1..Len(kept) |-> <<entry[1], Upper(kept[i][1])>>]
    IN  Flatten([i \in 1..Len(paths) |-> PairsOf(paths[i])])

\* the (path, method) pairs of a tool listing, in order
PairsOfTools(tools) == [i \in 1..Len(tools) |-> <<tools[i].path, tools[i].method>>]

\* the tools the static source declares
StaticTools ==
    IF context_file.kind = "file" /\ IsDict(context_file.data)
    THEN context_file.data.api.tools
    ELSE <<>>

\* what the refactored agent lists and finds now, whatever the schema
\* endpoint answers at that moment
ListedNow(answer) == Refactored_get_available_tools(refactored, discovery, answer).ret
FoundNow(name, answer) == Refactored_find_tool(refactored, discovery, name, answer).ret

\* C11: after refresh_capabilities the registry is the newly discovered source
\* and nothing else: get_available_tools lists exactly the operations of the
\* schema document just fetched (or exactly the static tools when the fetch
\* failed or discovery is disabled), and find_tool finds no name outside
\* that listing, so an operation of the old registry that the new source
\* lacks is gone.
C11_RefreshReplaces ==
    call.op = "refresh_capabilities" =>
        \A answer \in SchemaAnswers :
            /\ IF refactored.config.auto_discover /\ Reachable(backend)
               THEN PairsOfTools(ListedNow(answer)) = DeclaredPairs(backend.doc)
               ELSE ListedNow(answer) = StaticTools
            /\ \A name \in ToolNames :
                  FoundNow(name, answer) # None =>
                      \E i \in 1..Len(ListedNow(answer)) :
                          /\ ListedNow(answer)[i] = FoundNow(name, answer)
                          /\ ListedNow(answer)[i].name = name

\* the old registry was DocHerd's, the refreshed one is DocFarm's, and
\* get_herd, which only DocHerd has, is no longer found
C11_Witness ==
    /\ call.op = "refresh_capabilities"
    /\ fetches = 2
    /\ IsInstance(legacy)
    /\ Get(legacy.capabilities, "paths", <<>>) = DocHerd.paths
    /\ backend = [kind |-> "response", status |-> 200, doc |-> DocFarm]
    /\ PairsOfTools(ListedNow(backend)) = DeclaredPairs(DocFarm)
    /\ FoundNow(<<"get", "_", "herd">>, backend) = None

\* C12: every refresh_capabilities call, in every configuration of the agent,
\* fetches the schema again, and the cache it leaves holds what that fetch
\* produced and nothing older.
C12_RefreshUnconditional ==
    [][call'.op = "refresh_capabilities" =>
        /\ fetches' = fetches + 1
        /\ discovery'.cached_capabilities =
                IF Reachable(backend) THEN CD_parse_openapi_spec(backend.doc) ELSE None]_vars

\* C12 for the agents constructed with auto_discover enabled
C12_WhenAutoDiscover ==
    [][(call'.op = "refresh_capabilities" /\ refactored.config.auto_discover) =>
        /\ fetches' = fetches + 1
        /\ discovery'.cached_capabilities =
                IF Reachable(backend) THEN CD_parse_openapi_spec(backend.doc) ELSE None]_vars

\* the static source yields no tools: missing, empty, rejected by the YAML
\* loader, or not a mapping
StaticFails ==
    \/ context_file.kind \in {"missing", "invalid"}
    \/ context_file.kind = "file" /\ (~Truthy(context_file.data) \/ ~IsDict(context_file.data))

\* C13: discovery never raises: for every schema-fetch outcome and every
\* condition of the static source, constructing either agent yields an
\* instance and refresh_capabilities returns; an agent that got nothing from
\* the schema and whose static source fails has the empty list as registry.
C13_DiscoveryNeverRaises ==
    /\ IsInstance(legacy)
    /\ IsInstance(refactored)
    /\ call.op = "refresh_capabilities" => result = Returned(None)
    /\ (~Truthy(legacy.capabilities) /\ StaticFails) =>
            MCPAgent_get_available_tools(legacy) = Returned(<<>>)
    /\ ("paths" \notin DOMAIN refactored.capabilities /\ StaticFails) =>
            \A answer \in SchemaAnswers : ListedNow(answer) = <<>>

\* C13 for the refactored agent alone
C13_RefactoredNeverRaises ==
    /\ IsInstance(refactored)
    /\ call.op = "refresh_capabilities" => result = Returned(None)
    /\ ("paths" \notin DOMAIN refactored.capabilities /\ StaticFails) =>
            \A answer \in SchemaAnswers : ListedNow(answer) = <<>>

(***************************************************************************)
(* Claims about the registry built at construction, checked under Spec     *)
(* (where the schema endpoint keeps the answer it gave at construction).   *)
(***************************************************************************)
\* C14: when the schema fetch failed at discovery, get_available_tools of
\* either agent returns exactly the tools the static source declares, in
\* order, each once.
C14_FallbackIsStatic ==
    ~Reachable(backend) =>
        /\ IsInstance(legacy) => MCPAgent_get_available_tools(legacy) = Returned(StaticTools)
        /\ call.op = "get_available_tools" => result = Returned(StaticTools)
        /\ ListedNow(backend) = StaticTools

C14_Witness ==
    /\ backend = [kind |-> "exc", exc |-> "ConnectionError"]
    /\ context_file.kind = "file"
    /\ context_file.data = CtxCrud
    /\ legacy.capabilities = EmptyDict
    /\ call.op = "get_available_tools"
    /\ result = Returned(CtxCrud.api.tools)
    /\ ListedNow(backend) = CtxCrud.api.tools

(***************************************************************************)
(* Claims about refresh racing with readers, checked under SpecConcurrent. *)
(***************************************************************************)
\* the snapshot the refresh in progress installs: the operations of the
\* schema document being served, or the static tools if the fetch fails
NewSnapshot ==
    IF Reachable(backend) THEN CD_tools_of(CD_parse_openapi_spec(backend.doc))
    ELSE refactored.context.api.tools

\* C15: a get_available_tools or find_tool call made while refresh is in
\* progress observes the whole old snapshot or the whole new one, and a
\* list_herd that resolved its descriptor before or during the refresh sends
\* its request to that descriptor's path.
C15_ReadersSeeSnapshots ==
    [][/\ (refresher.pc # "idle" /\ call'.op = "agent.get_available_tools") =>
            result'.value \in {refresher.old, NewSnapshot}
       /\ (refresher.pc # "idle" /\ call'.op = "agent.find_tool") =>
            result'.value \in {FirstNamed(refresher.old, call'.tool_name),
                               FirstNamed(NewSnapshot, call'.tool_name)}
       /\ (call.op = "refactored.list_herd.resolved" /\ call'.op = "refactored.list_herd"
                /\ Truthy(call.tool) /\ "path" \in DOMAIN call.tool) =>
            /\ Len(sent') = 1
            /\ sent'[1].url = refactored.config.base_url \o call.tool.path]_vars

\* C15 without the reads of the listing: the dispatch part alone
C15_DispatchKeepsDescriptor ==
    [][(call.op = "refactored.list_herd.resolved" /\ call'.op = "refactored.list_herd"
            /\ Truthy(call.tool) /\ "path" \in DOMAIN call.tool) =>
        /\ Len(sent') = 1
        /\ sent'[1].url = refactored.config.base_url \o call.tool.path]_vars

(***************************************************************************)
(* Claims about name derivation, checked under SpecFunctions.              *)
(***************************************************************************)
\* the last call was one of the two name generators, on an operation object
\* without operationId and a supported method
Derived ==
    /\ call.op \in {"_generate_tool_name", "discovery._generate_tool_name"}
    /\ "operationId" \notin DOMAIN call.details
    /\ Upper(call.method) \in SupportedMethods

\* C16: without an explicit identifier both generators derive get_herd for
\* GET /herd/{herd_id}, list_herd for GET /herd and create_herd for POST /herd.
C16_NameExamples ==
    Derived =>
        /\ (Upper(call.method) = "GET" /\ call.path = P_herd_id) =>
                result = Returned(<<"get", "_", "herd">>)
        /\ (Upper(call.method) = "GET" /\ call.path = P_herd) =>
                result = Returned(<<"list", "_", "herd">>)
        /\ (Upper(call.method) = "POST" /\ call.path = P_herd) =>
                result = Returned(<<"create", "_", "herd">>)

\* C16 for MCPAgent._generate_tool_name alone
C16_LegacyNameExamples ==
    call.op = "_generate_tool_name" => C16_NameExamples

\* the name the derivation rule gives: the verb of the method, "_", and all
\* non-placeholder segments joined with "_" ("unknown" if there is none)
RuleVerb(method, path) ==
    CASE Upper(method) = "GET" -> IF Contains(path, <<"{">>) THEN "get" ELSE "list"
      [] Upper(method) = "POST" -> "create"
      [] Upper(method) = "PUT" -> "update"
      [] Upper(method) = "DELETE" -> "delete"
      [] Upper(method) = "PATCH" -> "patch"

RuleName(method, path) ==
    <<RuleVerb(method, path)>> \o <<"_">> \o
        (IF ResourceParts(path) = <<>> THEN <<"unknown">>
         ELSE JoinUnderscore(ResourceParts(path)))

\* C17: for every path and supported method without an explicit identifier
\* the derived name is verb_resource, resource being all non-placeholder
\* segments joined with underscores, or unknown.
C17_DerivationRule ==
    Derived => result = Returned(RuleName(call.method, call.path))

\* C17 for MCPAgent._generate_tool_name on paths with at most one
\* non-placeholder segment
C17_LegacySingleSegment ==
    (Derived /\ call.op = "_generate_tool_name" /\ Len(ResourceParts(call.path)) <= 1) =>
        result = Returned(RuleName(call.method, call.path))

(***************************************************************************)
(* Claims about the registry parsed from a schema document, checked under  *)
(* Spec.                                                                   *)
(***************************************************************************)
\* the names of a tool listing are pairwise distinct
UniqueNames(tools) ==
    \A i, j \in 1..Len(tools) : i # j => tools[i].name # tools[j].name

\* the last descriptor of the legacy registry that carries the resolved name
LastNamedTool ==
    LegacyTools[CHOOSE i \in 1..Len(LegacyTools) :
                    /\ LegacyTools[i].name = call.tool_name
                    /\ \A j \in (i + 1)..Len(LegacyTools) : LegacyTools[j].name # call.tool_name]

\* C18: a registry discovered from a schema document holds one descriptor
\* per name, and a dispatch by name goes to the (path, method) pair that
\* comes last in the document among those that derive the name.
C18_NamesUnique ==
    /\ (IsInstance(legacy) /\ Truthy(legacy.capabilities)) => UniqueNames(LegacyTools)
    /\ "paths" \in DOMAIN refactored.capabilities => UniqueNames(ListedNow(backend))
    /\ (Resolved /\ Truthy(legacy.capabilities)) =>
            /\ Len(sent) = 1
            /\ sent[1].method = LastNamedTool.method
            /\ sent[1].url = legacy.base_url \o SubstitutePath(LastNamedTool.path, call.kwargs)

\* C18 with "last" replaced by "first", and no uniqueness: what dispatch does
C18_FirstDescriptorWins ==
    (Resolved /\ Truthy(legacy.capabilities)) =>
        /\ Len(sent) = 1
        /\ sent[1].method = ResolvedTool.method
        /\ sent[1].url = legacy.base_url \o SubstitutePath(ResolvedTool.path, call.kwargs)

\* C19: the registry parsed from a schema document has exactly one
\* descriptor for every (path, method) pair with a supported method, in any
\* letter case, in document order, and none for any other key under a path;
\* a document with such keys is parsed all the same.
C19_SupportedVerbsOnly ==
    (Reachable(backend) /\ refactored.config.auto_discover) =>
        /\ IsInstance(legacy)
        /\ Truthy(legacy.capabilities)
        /\ PairsOfTools(legacy.capabilities.tools) = DeclaredPairs(backend.doc)
        /\ call.op = "get_available_tools" =>
                PairsOfTools(result.value) = DeclaredPairs(backend.doc)
        /\ Truthy(discovery.cached_capabilities)
        /\ PairsOfTools(CD_tools_of(discovery.cached_capabilities)) = DeclaredPairs(backend.doc)
        /\ PairsOfTools(ListedNow(backend)) = DeclaredPairs(backend.doc)

C19_Witness ==
    /\ backend = [kind |-> "response", status |-> 200, doc |-> DocFarm]
    /\ refactored.config.auto_discover
    /\ call.op = "get_available_tools"
    /\ PairsOfTools(result.value) =
            << <<P_api_herd, "GET">>, <<P_farm_herd, "GET">>, <<P_farm_herd, "POST">> >>
    /\ PairsOfTools(ListedNow(backend)) = PairsOfTools(result.value)

(***************************************************************************)
(* Claims about the static parsers, checked under SpecFunctions.           *)
(***************************************************************************)
\* C20: for a static source that does not exist, both fallback parsers return
\* the registry with an empty tool list and no version, and both agents are
\* constructed with that registry as their context; nothing is raised.
C20_MissingSourceIsEmpty ==
    context_file.kind = "missing" =>
        /\ call.op \in {"MCPAgent._parse_context_fallback", "YAMLParser._parse_fallback"} =>
                result = Returned([api |-> [tools |-> <<>>]])
        /\ IsInstance(legacy)
        /\ "context" \in DOMAIN legacy => legacy.context = [api |-> [tools |-> <<>>]]
        /\ IsInstance(refactored)
        /\ refactored.context = [api |-> [tools |-> <<>>]]

C20_Witness ==
    /\ context_file.kind = "missing"
    /\ call.op = "MCPAgent._parse_context_fallback"
    /\ result = Returned([api |-> [tools |-> <<>>]])
    /\ "context" \in DOMAIN legacy
    /\ legacy.context = [api |-> [tools |-> <<>>]]
    /\ backend.kind = "exc"


(***************************************************************************)
(* Claims about the static fallback parsers, checked under SpecFunctions.  *)
(***************************************************************************)
\* the positions of the "- name:" lines of a source
NameLines(lines) == {i \in 1..Len(lines) : LineStartsWith(lines[i], "- name:")}

\* the position of the k-th "- name:" line
ToolStart(lines, k) ==
    CHOOSE i \in NameLines(lines) : Cardinality({j \in NameLines(lines) : j <= i}) = k

\* the positions of the lines of the k-th tool block carrying the marker
FieldLines(lines, k, marker) ==
    LET last == IF k = Cardinality(NameLines(lines)) THEN Len(lines)
                ELSE ToolStart(lines, k + 1) - 1
    IN  {i \in (ToolStart(lines, k) + 1)..last : LineStartsWith(lines[i], marker)}

FieldMarkers ==
    [method |-> "method:", path |-> "path:", description |-> "description:",
     scopes |-> "scopes:"]

FieldValue(field, line) ==
    CASE field = "method" -> Word(LineValue(line))
      [] field = "scopes" -> ScopeItems(LineValue(line))
      [] OTHER -> LineValue(line)

ParsedSource == call # Idle /\ call.op = "parse_fallback"

\* C21: the fallback parser is tolerant per tool: it returns, every
\* "- name:" line of the source yields exactly one descriptor, and the
\* descriptor of a block holds the name and exactly the fields whose lines
\* the block contains, whatever unrecognized lines or incomplete blocks the
\* source has.
C21_TolerantPerTool ==
    ParsedSource =>
        /\ result.kind = "return"
        /\ LET tools == result.value.api.tools
           IN  /\ Len(tools) = Cardinality(NameLines(call.lines))
               /\ \A k \in 1..Len(tools) :
                    DOMAIN tools[k] =
                        {"name"} \cup {f \in DOMAIN FieldMarkers :
                                FieldLines(call.lines, k, FieldMarkers[f]) # {}}

\* a source with an unrecognized line inside a block and a tool that has
\* neither method nor path has been parsed
C21_Witness ==
    /\ ParsedSource
    /\ \E i \in 1..Len(call.lines) : LineStartsWith(call.lines[i], "unexpected_line:")
    /\ Len(result.value.api.tools) = 2
    /\ \E k \in 1..2 : DOMAIN result.value.api.tools[k] = {"name"}

\* C22: the fallback parser emits the tools in the order of their "- name:"
\* lines, and a method, path, description or scopes line sets the field of
\* the most recently declared tool only: each field of a descriptor is the
\* value of the last such line of its own block, and a source whose field
\* lines all precede the first tool yields descriptors without fields.
C22_DeclarationOrder ==
    ParsedSource =>
        LET tools == result.value.api.tools
            lines == call.lines
        IN  /\ NameLines(lines) = {} => tools = <<>>
            /\ \A k \in 1..Len(tools) :
                /\ k <= Cardinality(NameLines(lines))
                /\ tools[k].name = LineValue(lines[ToolStart(lines, k)])
                /\ \A f \in DOMAIN tools[k] \ {"name"} :
                    LET at == FieldLines(lines, k, FieldMarkers[f])
                    IN  /\ at # {}
                        /\ tools[k][f] =
                             FieldValue(f, lines[CHOOSE i \in at : \A j \in at : j <= i])

\* a field line before the first tool, and a field line after the second
\* tool of two, have been parsed
C22_Witness ==
    /\ ParsedSource
    /\ \/ /\ Len(call.lines) = 3
          /\ LineStartsWith(call.lines[1], "method:")
          /\ LineStartsWith(call.lines[2], "- name:")
          /\ result.value.api.tools = <<[name |-> <<"listHerd">>]>>
       \/ /\ call.lines = << <<"- name:", "listHerd">>, <<"- name:", "getSheep">>,
                             <<"path:", "/", "herd">> >>
          /\ result.value.api.tools =
                << [name |-> <<"listHerd">>],
                   [name |-> <<"getSheep">>, path |-> <<"/", "herd">>] >>


(***************************************************************************)
(* Claims about the registry accessors, checked under SpecDiscovery.       *)
(***************************************************************************)
\* value is a list
IsList(value) == DOMAIN value = 1..Cardinality(DOMAIN value)

ListingOps == {"get_available_tools", "agent.get_available_tools"}
FindOps == {"find_tool", "agent.find_tool"}

Authenticated == call # Idle /\ "token" \in DOMAIN call /\ get_current_user(call.token, now).kind = "return"

HerdOps ==
    {"GET /herd", "GET /herd/{herd_id}", "POST /herd", "PUT /herd/{herd_id}",
     "DELETE /herd/{herd_id}"}

\* the total GET /herd reports
ListTotal(db) == HerdRepository_count(db)

\* C24: over any sequence of authenticated requests the listing stays
\* consistent with the stored set: POST /herd raises the total by exactly
\* one, PUT leaves it unchanged, DELETE of a stored herd lowers it by one,
\* and GET /herd/{id} answers 404 exactly for the ids that are not stored
\* and 200 otherwise.
C24_ListingConsistent ==
    [][(call = Idle /\ call' # Idle /\ call'.op \in HerdOps
        /\ get_current_user(call'.token, now).kind = "return") =>
        /\ call'.op = "POST /herd" => ListTotal(database') = ListTotal(database) + 1
        /\ call'.op = "PUT /herd/{herd_id}" => ListTotal(database') = ListTotal(database)
        /\ (call'.op = "DELETE /herd/{herd_id}" /\ call'.herd_id \in DOMAIN database.rows) =>
                ListTotal(database') = ListTotal(database) - 1
        /\ call'.op = "GET /herd/{herd_id}" =>
                result'.status_code = IF call'.herd_id \in DOMAIN database.rows THEN 200 ELSE 404
      ]_vars

\* what the code does: an authenticated request to a herd endpoint is
\* answered 500 and leaves the database as it was
C24_HerdRequestsFail ==
    [][(call = Idle /\ call' # Idle /\ call'.op \in HerdOps
        /\ get_current_user(call'.token, now).kind = "return") =>
        /\ result'.status_code = 500
        /\ database' = database]_vars

\* the signature of the token is the application's and it has not expired
TokenVerifies(token, clock) ==
    /\ token # None
    /\ token.kind = "jwt"
    /\ token.key = SECRET_KEY
    /\ "exp" \in DOMAIN token.payload => token.payload.exp >= clock

\* the token names a user
NamesUser(token) ==
    /\ "sub" \in DOMAIN token.payload
    /\ token.payload.sub \in DOMAIN users_db

ProtectedOps == HerdOps \cup {"GET /users/me"}

\* the request got past the authentication dependency
Reached == result.status_code \notin {401, 403}

MissingKeys(template, kwargs) ==
    {k \in ArgKeys : Contains(template, Placeholder(k))} \ KeySet(kwargs)

\* the keyword arguments that are not placeholders of the template
RemainingArgs(template, kwargs) ==
    SelectSeq(kwargs, LAMBDA kv : kv[1] \notin PathKeys(template, kwargs))

\* C26: when the keyword arguments of execute_operation lack a placeholder
\* of the resolved template, exactly one request is still issued, its URL
\* contains the literal placeholder, and the remaining arguments are routed
\* by verb: the JSON body for POST, PUT and PATCH, the query for GET.
C26_MissingPathArgument ==
    Resolved =>
        LET template == Get(ResolvedTool, "path", <<>>)
            method == Get(ResolvedTool, "method", "GET")
            rest == RemainingArgs(template, call.kwargs)
        IN  MissingKeys(template, call.kwargs) # {} =>
                /\ Len(sent) = 1
                /\ \A k \in MissingKeys(template, call.kwargs) :
                      Contains(sent[1].url, Placeholder(k))
                /\ method \in {"POST", "PUT", "PATCH"} =>
                      /\ Get(sent[1], "json", <<>>) = rest
                      /\ "params" \notin DOMAIN sent[1]
                /\ method = "GET" =>
                      /\ Get(sent[1], "params", <<>>) = rest
                      /\ "json" \notin DOMAIN sent[1]

\* updateHerd is called with a name and no herd_id
C26_Witness ==
    /\ Resolved
    /\ Get(ResolvedTool, "method", "GET") = "PUT"
    /\ MissingKeys(Get(ResolvedTool, "path", <<>>), call.kwargs) = {<<"herd_id">>}
    /\ KeySet(call.kwargs) = {<<"name">>}
    /\ Len(sent) = 1
    /\ Contains(sent[1].url, Placeholder(<<"herd_id">>))
    /\ sent[1].json = call.kwargs

\* the operation objects a schema document declares with a supported
\* method, in document order
DeclaredOperations(doc) ==
    LET paths == IF "paths" \in DOMAIN doc THEN doc.paths ELSE <<>>
        OperationsOf(entry) ==
            LET kept == SelectSeq(entry[2], LAMBDA m : Upper(m[1]) \in SupportedMethods)
            IN  [i \in 1..Len(kept) |-> kept[i][2]]
    IN  Flatten([i \in 1..Len(paths) |-> OperationsOf(paths[i])])

\* description if present, else summary if present, else the empty string
DescriptionFirst(details) ==
    IF "description" \in DOMAIN details THEN details.description
    ELSE IF "summary" \in DOMAIN details THEN details.summary
    ELSE <<>>

DescriptionsOf(tools) == [i \in 1..Len(tools) |-> tools[i].description]

DeclaredDescriptions(doc) ==
    [i \in 1..Len(DeclaredOperations(doc)) |-> DescriptionFirst(DeclaredOperations(doc)[i])]

\* C27: the description of every schema-derived descriptor is the
\* operation's description when it has one, else its summary, else the empty
\* string, in the registry MCPAgent._discover_capabilities builds and in the
\* listing of CapabilityDiscovery.get_available_tools.
C27_DescriptionWins ==
    (Reachable(backend) /\ refactored.config.auto_discover) =>
        /\ DescriptionsOf(legacy.capabilities.tools) = DeclaredDescriptions(backend.doc)
        /\ DescriptionsOf(CD_tools_of(discovery.cached_capabilities))
                = DeclaredDescriptions(backend.doc)

\* C27 for CapabilityDiscovery.get_available_tools alone
C27_DiscoveryDescriptionWins ==
    (Reachable(backend) /\ refactored.config.auto_discover) =>
        DescriptionsOf(CD_tools_of(discovery.cached_capabilities))
            = DeclaredDescriptions(backend.doc)

\* what MCPAgent._discover_capabilities does: the summary when the operation
\* has one, else its description, else the empty string
C27_LegacySummaryWins ==
    (Reachable(backend) /\ refactored.config.auto_discover) =>
        \A i \in 1..Len(legacy.capabilities.tools) :
            LET details == DeclaredOperations(backend.doc)[i]
            IN  legacy.capabilities.tools[i].description =
                    IF "summary" \in DOMAIN details THEN details.summary
                    ELSE IF "description" \in DOMAIN details THEN details.description
                    ELSE <<>>

\* the errors list_herd documents: tool or path not found (ValueError),
\* timeout, HTTP error and request error (RuntimeError)
ListHerdErrors == {"ValueError", "RuntimeError"}

\* C28: a constructed MCPAgent has its static context defined whatever the
\* outcome of discovery, and list_herd returns the response or raises one
\* of its documented errors, never an undefined-attribute error.
C28_ContextDefined ==
    IsInstance(legacy) =>
        /\ "context" \in DOMAIN legacy
        /\ call.op = "list_herd" =>
                \/ result.kind = "return"
                \/ result.kind = "raise" /\ result.type \in ListHerdErrors

\* what the constructor does: the context is defined exactly when dynamic
\* discovery was disabled or failed, and list_herd on an agent whose
\* discovery succeeded raises AttributeError without sending anything
C28_ContextOnlyOnFallback ==
    IsInstance(legacy) =>
        /\ "context" \in DOMAIN legacy <=>
                ~(refactored.config.auto_discover /\ Reachable(backend)
                  /\ backend.kind = "response")
        /\ (call.op = "list_herd" /\ "context" \notin DOMAIN legacy) =>
                /\ result.kind = "raise"
                /\ result.type = "AttributeError"
                /\ sent = <<>>

(***************************************************************************)
(* Claims about the agent dependency, checked under SpecAgentDep.          *)
(***************************************************************************)
\* C29: get_agent constructs at most one MCPAgent, and every call returns
\* that instance, also when several requests resolve the dependency while
\* the instance is still unset.
C29_SingleAgent ==
    /\ Len(agents) <= 1
    /\ \A req \in Resolvers : resolving[req].pc = "done" => resolving[req].value = 1

\* what get_agent guarantees: an instance is stored only after it was
\* constructed, every call returns a constructed instance, and no more
\* instances are constructed than there are requests that found the global
\* unset at the same time
C29_ReturnsConstructed ==
    /\ Len(agents) <= MaxResolvers
    /\ _agent_instance # None => _agent_instance.instance \in 1..Len(agents)
    /\ \A req \in Resolvers :
            resolving[req].pc = "done" => resolving[req].value \in 1..Len(agents)

\* once the global is set it stays set, and a call that starts afterwards
\* constructs nothing
C29_NoConstructionOnceSet ==
    [][_agent_instance # None =>
            /\ _agent_instance' # None
            /\ \A req \in Resolvers :
                    resolving[req].pc = "idle" => resolving'[req].pc \in {"idle", "return"}]_vars

(***************************************************************************)
(* Claims about the MCP servers, checked under SpecServers.                *)
(***************************************************************************)
\* the token and the expiry an instance has stored
StoredToken(self) ==
    [k \in DOMAIN self \cap {"access_token", "token_expires_at"} |-> self[k]]

\* a token is stored that has more than five minutes left
StoredTokenValid(self, clock) ==
    /\ "access_token" \in DOMAIN self
    /\ "token_expires_at" \in DOMAIN self
    /\ self.token_expires_at - clock > TokenMargin

\* the positions in a request log of the requests to the token endpoint and
\* of the requests to the API
TokenRequests(self, log) == {i \in 1..Len(log) : log[i].url = token_url(self)}
ApiRequests(self, log) == {i \in 1..Len(log) : log[i].url # token_url(self)}

MakeRequestStep == call = Idle /\ call' # Idle /\ call'.op = "make_request"

\* C30: make_request sends the API request only after authenticate returned
\* true in that call; authenticate returns true without a request to the
\* token endpoint only while a stored token has more than five minutes left;
\* when authentication fails make_request raises 401, sends no API request
\* and leaves the stored token and expiry as they were.
C30_AuthenticateFirst ==
    [][MakeRequestStep =>
        /\ ApiRequests(server, sent') # {} =>
                /\ call'.authenticate
                /\ ApiRequests(server, sent') = {Len(sent')}
        /\ (call'.authenticate /\ TokenRequests(server, sent') = {}) =>
                StoredTokenValid(server, now)
        /\ ~call'.authenticate =>
                /\ result' = HTTPException(401, "Failed to authenticate")
                /\ ApiRequests(server, sent') = {}
                /\ StoredToken(server') = StoredToken(server)]_vars

\* what the servers do: as C30, but a failed authentication may have
\* replaced the stored token, namely when the token endpoint answered 200
\* with an expires_in that is not a number; the stored expiry is unchanged
C30_FailureKeepsExpiry ==
    [][MakeRequestStep =>
        /\ ApiRequests(server, sent') # {} =>
                /\ call'.authenticate
                /\ ApiRequests(server, sent') = {Len(sent')}
        /\ (call'.authenticate /\ TokenRequests(server, sent') = {}) =>
                StoredTokenValid(server, now)
        /\ ~call'.authenticate =>
                /\ result' = HTTPException(401, "Failed to authenticate")
                /\ ApiRequests(server, sent') = {}
                /\ Get(server', "token_expires_at", None) = Get(server, "token_expires_at", None)
                /\ StoredToken(server') # StoredToken(server) =>
                        /\ reply'.kind = "response"
                        /\ reply'.status_code = 200
                        /\ "access_token" \in DOMAIN reply'.json
                        /\ "expires_in" \in DOMAIN reply'.json
                        /\ reply'.json.expires_in.t # "int"]_vars
====
